---- MODULE Spec2Model ----
(***************************************************************************)
(* Access and permission model of R Quotas (server/storage.ts and the      *)
(* route handlers of server/routes.ts that guard it).                      *)
(*                                                                         *)
(* The database tables are the state.  Storage methods that only read are  *)
(* operators over the tables; storage methods that write are actions.      *)
(* Spec runs the storage layer with arbitrary arguments, SpecRoutes runs   *)
(* the HTTP handlers with sessions, SpecCap applies capPermissions to      *)
(* arbitrary (also partial) permission objects.                            *)
(***************************************************************************)
EXTENDS Integers, Sequences, FiniteSets, TLC

\* ------------------------------------------------------------------ bounds
NumUsers == 2
NumCompanies == 2
NumTrades == 2
NumSpecialties == 3
MaxJobs == 2
MaxOps == 3

Users == 1..NumUsers
Companies == 1..NumCompanies
Trades == 1..NumTrades
Specialties == 1..NumSpecialties
JobIds == 1..MaxJobs

\* An id that no company row carries (an unknown company).
UnknownCompany == NumCompanies + 1
CompanyArgs == Companies \cup {UnknownCompany}

Roles == {"OWNER", "ADMIN", "USER", "SUPPORT"}
\* Role strings a caller of the storage layer may pass, one of them unknown.
RoleArgs == Roles \cup {"GUEST"}

JOB_STATUSES == {"DRAFT", "SENT", "APPROVED", "SCHEDULED", "IN_PROGRESS", "DONE"}

\* specialties.trade_id of the seeded catalogue rows
SpecialtyTrade(s) == ((s - 1) % NumTrades) + 1

\* companies.trade_id
CompanyTrade(c) == ((c - 1) % NumTrades) + 1

\* -------------------------------------------------------------- permissions
Flags == {"canManageUsers", "canViewAllSpecialties", "canViewPrices",
          "canEditPrices", "canAudit"}

\* A JSON permission object: any subset of the flags may be present.
PartialPermissions == UNION {[D -> BOOLEAN] : D \in SUBSET Flags}

\* The baseline of a newly added employee.
DEFAULT_EMPLOYEE_PERMISSIONS == [f \in Flags |-> FALSE]

\* A NULL permissions column.  JSON "{}" parses to the same permission set.
NullPermissions == [f \in {} |-> FALSE]

NoCap == [jobPermissions |-> NullPermissions, companyPermissions |-> NullPermissions,
          result |-> NullPermissions, done |-> FALSE]

\* Object spread { ...a, ...b }
Spread(a, b) ==
    [f \in (DOMAIN a) \cup (DOMAIN b) |-> IF f \in DOMAIN b THEN b[f] ELSE a[f]]

\* A flag read off an object: absent (undefined) is falsy.
FlagOf(p, f) == IF f \in DOMAIN p THEN p[f] ELSE FALSE

parsePermissions(raw) ==
    IF raw = NullPermissions
    THEN DEFAULT_EMPLOYEE_PERMISSIONS
    ELSE Spread(DEFAULT_EMPLOYEE_PERMISSIONS, raw)

\* Mutant: the job-level grant passes through uncapped.
capPermissions_JobOnly(jobPermissions, companyPermissions) ==
    [f \in Flags |-> FlagOf(jobPermissions, f)]

capPermissions(jobPermissions, companyPermissions) ==
    [f \in Flags |-> FlagOf(jobPermissions, f) /\ FlagOf(companyPermissions, f)]

\* ------------------------------------------------------------ stripPrices
\* JavaScript null
Null == "<null>"

\* Objects live in a heap, a sequence indexed by reference; a list is a
\* sequence of references.
Deref(heap, list) == [i \in DOMAIN list |-> heap[list[i]]]

Refs(list) == {list[i] : i \in DOMAIN list}

\* Mutant: services.forEach(s => { s.unitPrice = null }); return services
stripPrices_InPlace(heap, services_) ==
    [heap |-> [r \in DOMAIN heap |->
                  IF r \in Refs(services_)
                  THEN Spread(heap[r], [unitPrice |-> Null]) ELSE heap[r]],
     result |-> services_]

\* services.map(s => ({ ...s, unitPrice: null })): one new object per element,
\* appended to the heap, and a new list of the new references.
stripPrices(heap, services_) ==
    [heap |-> heap \o [i \in 1..Len(services_) |->
                          Spread(heap[services_[i]], [unitPrice |-> Null])],
     result |-> [i \in 1..Len(services_) |-> Len(heap) + i]]

\* -------------------------------------------------------------------- state
VARIABLES
    users,            \* users table: id -> [username, passwordHash, role, isSupportAdmin]
    companyUsers,     \* company_users: <<companyId, userId>> -> [role, isActive, permissions]
    userSpecialties,  \* user_specialties rows <<companyId, userId, specialtyId>>
    jobs,             \* jobs: id -> [exists, companyId, specialtyId, status, items]
    jobAssignments,   \* job_assignments: <<jobId, userId>> -> permissions column
    services,         \* services rows [id, companyId, specialtyId, active, unitPrice]
    session,          \* per user: [userId (0 = none), role, companyId (0 = none)]
    lastReq,          \* the last HTTP request served and its status
    nextJobId,        \* the jobs.id sequence
    auditLog,         \* audit_log rows in insertion order
    cap,              \* one capPermissions call: its arguments and its result
    strip,            \* one stripPrices call: the heap before and after, and the lists
    inviteTokens,     \* invite_tokens: token -> [companyId, role, used, usedBy, expired]
    signups,          \* the signup requests in flight: where each stands, what it read
    updaters,         \* the updateCompanyUserPermissions calls in flight
    writeOrder,       \* the calls that have run their update statement, in order
    db,               \* the database runMigrations works on: schema objects and rows
    mig,              \* the runMigrations call: where it stands, how the runs ended
    calc,             \* one price calculation of the client: its inputs and what it shows
    estimatePhotos,   \* estimate_photos rows [id, jobId (0 = null), companyId]
    nops              \* number of requests / storage calls performed

vars == <<users, companyUsers, userSpecialties, jobs, jobAssignments,
          services, session, lastReq, nextJobId, auditLog, cap, strip, inviteTokens, signups,
          updaters, writeOrder, db, mig, calc, estimatePhotos, nops>>

\* Tables and requests only the specifications further down work on.
client == <<calc>>

rest == <<inviteTokens, signups, updaters, writeOrder, db, mig, client, estimatePhotos>>

\* What the storage calls and the handlers of the first specifications leave alone.
aside == <<cap, strip, rest>>

NoJob == [exists |-> FALSE, companyId |-> 0, specialtyId |-> 0, status |-> "DRAFT",
          items |-> << >>]
NoSession == [userId |-> 0, role |-> "", companyId |-> 0]

\* No stripPrices call: an empty heap and empty lists.
NoStrip == [heap |-> << >>, input |-> << >>, after |-> << >>, result |-> << >>,
            done |-> FALSE]

\* Signup requests are numbered; none has started.
NumSignups == 2

Signups == 1..NumSignups

NoSignup == [pc |-> "idle", token |-> "", username |-> "", invite |-> [found |-> FALSE],
             newUser |-> 0, status |-> 0]

\* Concurrent calls of updateCompanyUserPermissions are numbered too.
NumUpdaters == 2

Updaters == 1..NumUpdaters

NoUpdater == [pc |-> "idle", companyId |-> 0, userId |-> 0, permissions |-> << >>,
              cu |-> [found |-> FALSE]]

InvitesIdle ==
    /\ inviteTokens = << >>
    /\ signups = [p \in Signups |-> NoSignup]

UpdatersIdle ==
    /\ updaters = [p \in Updaters |-> NoUpdater]
    /\ writeOrder = << >>

\* No migration is running; the database it works on is not looked at.
NoMigration == [pc |-> "idle", outcomes |-> << >>, begin |-> << >>, first |-> << >>]

MigrationIdle ==
    /\ db = << >>
    /\ mig = NoMigration

NoCalc == [done |-> FALSE]

ClientIdle ==
    /\ calc = NoCalc

PhotosIdle ==
    /\ estimatePhotos = {}

RestIdle == InvitesIdle /\ UpdatersIdle /\ MigrationIdle /\ ClientIdle /\ PhotosIdle

NoReq == [route |-> "none", caller |-> 0, companyId |-> 0, jobId |-> 0,
          status |-> 0, body |-> {}]

\* ------------------------------------------------------ storage: the reads
Undefined == [found |-> FALSE]

ZeroStats == [total |-> 0, drafts |-> 0, sent |-> 0, approved |-> 0,
              inProgress |-> 0, done |-> 0]

\* co?.tradeId || 0
getCompanyTradeId(companyId) ==
    IF companyId \in Companies THEN CompanyTrade(companyId) ELSE 0

\* db.select().from(specialties).where(eq(specialties.tradeId, tradeId))
getSpecialties(tradeId) ==
    {s \in Specialties : SpecialtyTrade(s) = tradeId}

getCompanyUserPermissions(companyId, userId) ==
    IF <<companyId, userId>> \notin DOMAIN companyUsers
    THEN DEFAULT_EMPLOYEE_PERMISSIONS
    ELSE parsePermissions(companyUsers[<<companyId, userId>>].permissions)

\* Mutant: the company is left out of the where clause.
UserSpecialtyRows_AnyCompany(userId, companyId) ==
    {r[3] : r \in {x \in userSpecialties : x[2] = userId}}

\* rows of user_specialties for (userId, companyId)
UserSpecialtyRows(userId, companyId) ==
    {r[3] : r \in {x \in userSpecialties : x[1] = companyId /\ x[2] = userId}}

\* Mutant: OWNER is subject to the canViewAllSpecialties flag like ADMIN.
getAllowedSpecialtyIds_FlagForOwner(userId, companyId, role) ==
    IF role = "SUPPORT" THEN {}
    ELSE IF (role = "OWNER" \/ role = "ADMIN")
            /\ getCompanyUserPermissions(companyId, userId).canViewAllSpecialties
         THEN getSpecialties(getCompanyTradeId(companyId))
         ELSE UserSpecialtyRows(userId, companyId)

getAllowedSpecialtyIds(userId, companyId, role) ==
    IF role = "SUPPORT" THEN {}
    ELSE IF (role = "OWNER" \/ role = "ADMIN")
            /\ (role = "OWNER"
                \/ getCompanyUserPermissions(companyId, userId).canViewAllSpecialties)
         THEN getSpecialties(getCompanyTradeId(companyId))
         ELSE UserSpecialtyRows(userId, companyId)

\* The ids in S in ascending order (jobs.createdAt follows the serial id).
RECURSIVE Ascending(_)
Ascending(S) ==
    IF S = {} THEN << >>
    ELSE LET m == CHOOSE x \in S : \A y \in S : x <= y
         IN  <<m>> \o Ascending(S \ {m})

\* Mutant: the company is left out of the where clause.
CompanyJobs_AllCompanies(companyId) ==
    Ascending({j \in JobIds : jobs[j].exists})

\* db.select().from(jobs).where(eq(jobs.companyId, companyId)).orderBy(createdAt)
CompanyJobs(companyId) ==
    Ascending({j \in JobIds : jobs[j].exists /\ jobs[j].companyId = companyId})

\* Mutant: the count runs over every job of the company, visible or not.
CountStatus_CompanyWide(items, st) ==
    Cardinality({j \in JobIds :
                    /\ jobs[j].exists
                    /\ jobs[j].status = st
                    /\ \E i \in DOMAIN items : jobs[items[i]].companyId = jobs[j].companyId})

CountStatus(items, st) ==
    Len(SelectSeq(items, LAMBDA j : jobs[j].status = st))

JobStats(items) ==
    [total |-> Len(items),
     drafts |-> CountStatus(items, "DRAFT"),
     sent |-> CountStatus(items, "SENT"),
     approved |-> CountStatus(items, "APPROVED"),
     inProgress |-> CountStatus(items, "IN_PROGRESS"),
     done |-> CountStatus(items, "DONE")]

\* jobAssignments rows of the user, whatever the company of the job
AssignedJobIds(userId) ==
    {a[1] : a \in {x \in DOMAIN jobAssignments : x[2] = userId}}

\* Mutant: directly assigned jobs are not kept by the filter.
UserJobFilter_SpecialtyOnly(j, jobIds, userSpecIds) ==
    jobs[j].specialtyId # 0 /\ jobs[j].specialtyId \in userSpecIds

UserJobFilter(j, jobIds, userSpecIds) ==
    j \in jobIds
    \/ (jobs[j].specialtyId # 0 /\ jobs[j].specialtyId \in userSpecIds)

\* Mutant: no SUPPORT override, SUPPORT is filtered like USER.
getJobs_NoSupportGate(userId, role, companyId) ==
    IF role = "OWNER" \/ role = "ADMIN"
    THEN LET jobsList == CompanyJobs(companyId)
         IN  [items |-> jobsList, stats |-> JobStats(jobsList)]
    ELSE LET jobIds == AssignedJobIds(userId)
             userSpecIds == UserSpecialtyRows(userId, companyId)
         IN  IF jobIds = {} /\ userSpecIds = {}
             THEN [items |-> << >>, stats |-> ZeroStats]
             ELSE LET jobsList ==
                          SelectSeq(CompanyJobs(companyId),
                                    LAMBDA j : UserJobFilter(j, jobIds, userSpecIds))
                  IN  [items |-> jobsList, stats |-> JobStats(jobsList)]

getJobs(userId, role, companyId) ==
    IF role = "SUPPORT" THEN [items |-> << >>, stats |-> ZeroStats]
    ELSE IF role = "OWNER" \/ role = "ADMIN"
    THEN LET jobsList == CompanyJobs(companyId)
         IN  [items |-> jobsList, stats |-> JobStats(jobsList)]
    ELSE LET jobIds == AssignedJobIds(userId)
             userSpecIds == getAllowedSpecialtyIds(userId, companyId, role)
         IN  IF jobIds = {} /\ userSpecIds = {}
             THEN [items |-> << >>, stats |-> ZeroStats]
             ELSE LET jobsList ==
                          SelectSeq(CompanyJobs(companyId),
                                    LAMBDA j : UserJobFilter(j, jobIds, userSpecIds))
                  IN  [items |-> jobsList, stats |-> JobStats(jobsList)]

\* Mutant: only unitPrice is overwritten, lineTotal keeps the stored total.
RedactItems_UnitPriceOnly(items) ==
    [i \in DOMAIN items |-> Spread(items[i], [unitPrice |-> "0"])]

\* result.items.map(item => ({ ...item, unitPrice: "0", lineTotal: "0" }))
RedactItems(items) ==
    [i \in DOMAIN items |-> Spread(items[i], [unitPrice |-> "0", lineTotal |-> "0"])]

\* Mutant: the job assignment's permissions are returned without the cap.
getJob_Uncapped(id, userId, role, companyId) ==
    IF role = "SUPPORT" THEN Undefined
    ELSE IF ~(id \in JobIds /\ jobs[id].exists /\ jobs[id].companyId = companyId)
    THEN Undefined
    ELSE IF role = "OWNER" \/ role = "ADMIN"
    THEN [found |-> TRUE, id |-> id, myRole |-> "OWNER", items |-> jobs[id].items]
    ELSE IF <<id, userId>> \notin DOMAIN jobAssignments
    THEN Undefined
    ELSE LET companyPerms == getCompanyUserPermissions(companyId, userId)
             jobPerms == parsePermissions(jobAssignments[<<id, userId>>])
         IN  [found |-> TRUE, id |-> id, myRole |-> "USER",
              permissions |-> jobPerms, companyPermissions |-> companyPerms,
              items |-> IF ~jobPerms.canViewPrices
                        THEN RedactItems(jobs[id].items) ELSE jobs[id].items]

getJob(id, userId, role, companyId) ==
    IF role = "SUPPORT" THEN Undefined
    ELSE IF ~(id \in JobIds /\ jobs[id].exists /\ jobs[id].companyId = companyId)
    THEN Undefined
    ELSE IF role = "OWNER" \/ role = "ADMIN"
    THEN [found |-> TRUE, id |-> id, myRole |-> "OWNER", items |-> jobs[id].items]
    ELSE IF <<id, userId>> \notin DOMAIN jobAssignments
    THEN Undefined
    ELSE LET companyPerms == getCompanyUserPermissions(companyId, userId)
             jobPerms == parsePermissions(jobAssignments[<<id, userId>>])
             perms == capPermissions(jobPerms, companyPerms)
         IN  [found |-> TRUE, id |-> id, myRole |-> "USER",
              permissions |-> perms, companyPermissions |-> companyPerms,
              items |-> IF ~perms.canViewPrices
                        THEN RedactItems(jobs[id].items) ELSE jobs[id].items]

\* Mutant: a requested specialtyId is not checked against the allowed set.
getServices_NoAllowedCheck(companyId, userId, role, specialtyId) ==
    IF role = "SUPPORT" THEN {}
    ELSE LET allowedIds == getAllowedSpecialtyIds(userId, companyId, role)
         IN  IF allowedIds = {} THEN {}
             ELSE IF specialtyId # 0
             THEN {s \in services : s.companyId = companyId /\ s.active
                                    /\ s.specialtyId = specialtyId}
             ELSE {s \in services : s.companyId = companyId /\ s.active
                                    /\ s.specialtyId \in allowedIds}

\* opts.specialtyId = 0 stands for an absent specialtyId
getServices(companyId, userId, role, specialtyId) ==
    IF role = "SUPPORT" THEN {}
    ELSE LET allowedIds == getAllowedSpecialtyIds(userId, companyId, role)
         IN  IF allowedIds = {} THEN {}
             ELSE IF specialtyId # 0
             THEN IF specialtyId \notin allowedIds THEN {}
                  ELSE {s \in services : s.companyId = companyId /\ s.active
                                         /\ s.specialtyId = specialtyId}
             ELSE {s \in services : s.companyId = companyId /\ s.active
                                    /\ s.specialtyId \in allowedIds}

getJobAssignments(jobId, companyId) ==
    {[jobId |-> a[1], userId |-> a[2],
      permissions |-> parsePermissions(jobAssignments[a]),
      companyPermissions |-> IF companyId # 0
                             THEN getCompanyUserPermissions(companyId, a[2])
                             ELSE NullPermissions] :
        a \in {x \in DOMAIN jobAssignments : x[1] = jobId}}

getUserCompanyIds(userId) ==
    {k[1] : k \in {x \in DOMAIN companyUsers :
                       x[2] = userId /\ companyUsers[x].isActive}}

isUserInCompany(userId, companyId) == <<companyId, userId>> \in DOMAIN companyUsers

\* members of getCompanyUsers: the active rows of the company
getCompanyUsers(companyId) ==
    {k[2] : k \in {x \in DOMAIN companyUsers :
                       x[1] = companyId /\ companyUsers[x].isActive}}

\* ----------------------------------------------------- storage: the writes
\* Each write is the effect of the storage method on the tables it touches.

setUserSpecialties(userId, companyId, specialtyIds) ==
    userSpecialties' =
        {r \in userSpecialties : ~(r[1] = companyId /\ r[2] = userId)}
        \cup {<<companyId, userId, s>> : s \in specialtyIds}

updateCompanyUserPermissions(companyId, userId, permissions) ==
    IF <<companyId, userId>> \notin DOMAIN companyUsers
    THEN companyUsers' = companyUsers
    ELSE LET cu == companyUsers[<<companyId, userId>>]
             existing == parsePermissions(cu.permissions)
             updated == Spread(existing, permissions)
         IN  companyUsers' =
                 [companyUsers EXCEPT ![<<companyId, userId>>].permissions = updated]

assignJobUser(jobId, userId, permissions) ==
    LET perms == Spread(DEFAULT_EMPLOYEE_PERMISSIONS, permissions)
    IN  jobAssignments' =
            [a \in (DOMAIN jobAssignments) \cup {<<jobId, userId>>} |->
                IF a = <<jobId, userId>> THEN perms ELSE jobAssignments[a]]

updateAssignmentPermissions(jobId, userId, permissions) ==
    IF <<jobId, userId>> \notin DOMAIN jobAssignments
    THEN jobAssignments' = jobAssignments
    ELSE LET existing == parsePermissions(jobAssignments[<<jobId, userId>>])
             updated == Spread(existing, permissions)
         IN  jobAssignments' =
                 [jobAssignments EXCEPT ![<<jobId, userId>>] = updated]

logAudit(companyId, actorUserId, action, jobId) ==
    auditLog' = Append(auditLog, [companyId |-> companyId, actorUserId |-> actorUserId,
                                  action |-> action, jobId |-> jobId])

createJob(specialtyId, status, items, userId, companyId) ==
    /\ nextJobId \in JobIds
    /\ jobs' = [jobs EXCEPT ![nextJobId] =
                    [exists |-> TRUE, companyId |-> companyId,
                     specialtyId |-> specialtyId, status |-> status,
                     items |-> [i \in DOMAIN items |-> Spread(items[i], [id |-> i])]]]
    /\ nextJobId' = nextJobId + 1
    /\ logAudit(companyId, userId, "JOB_CREATED", nextJobId)

\* ------------------------------------------------------------ pricing rules
\* seedPricingRules: one rule per trade and unit, no specialty, anchor 1.15.
RuleUnits == {"HR", "SF"}

RuleBasePrice(unit) == IF unit = "HR" THEN "65.00" ELSE "12.00"

RuleId(t, unit) == (t - 1) * 2 + (IF unit = "HR" THEN 1 ELSE 2)

PricingRuleRows ==
    {[id |-> RuleId(t, unit), regionId |-> 1, tradeId |-> t, specialtyId |-> 0,
      unit |-> unit, basePrice |-> RuleBasePrice(unit), anchorMultiplier |-> "1.15",
      enabled |-> TRUE] : t \in Trades, unit \in RuleUnits}

\* A set of rows with distinct ids, as a list ordered by id.
ById(rows) ==
    LET ids == Ascending({r.id : r \in rows})
    IN  [i \in DOMAIN ids |-> CHOOSE r \in rows : r.id = ids[i]]

\* opts: 0 and "" stand for an absent option
getPricingRules(regionId, tradeId, specialtyId, unit) ==
    ById({r \in PricingRuleRows :
            /\ (regionId # 0 => r.regionId = regionId)
            /\ (tradeId # 0 => r.tradeId = tradeId)
            /\ (specialtyId # 0 => r.specialtyId = specialtyId)
            /\ (unit # "" => r.unit = unit)})

\* ------------------------------------------------------------------ inputs
\* Partial permission objects a request body carries (permissionsSchema.partial()).
MaxUpdateFlags == 1
PermissionUpdates ==
    UNION {[D -> BOOLEAN] : D \in {E \in SUBSET Flags : Cardinality(E) <= MaxUpdateFlags}}

SpecialtyArgs == {0} \cup Specialties
\* What the route-driven exploration sends: selections of at most
\* MaxSelection specialties and updates of the flags in RouteFlags.
MaxSelection == 1

SpecialtySelections == {S \in SUBSET Specialties : Cardinality(S) <= MaxSelection}

RouteFlags == {"canManageUsers", "canViewPrices"}

RoutePermissionUpdates == {p \in PermissionUpdates : DOMAIN p \subseteq RouteFlags}

NewJobStatuses == {"DRAFT"}

\* Statuses a job is inserted with when the status matters: one the stats
\* count as drafts, one they count as done, and one no stats field counts.
PostedStatuses == {"DRAFT", "SCHEDULED", "DONE"}

\* Line items a new job is posted with: MaxItems of them.
MaxItems == 2

ItemPrice(i) == IF i % 2 = 1 THEN "120.00" ELSE "45.50"

PostedItems(n) == [i \in 1..n |-> [unitPrice |-> ItemPrice(i), lineTotal |-> ItemPrice(i)]]

NewJobItems == {PostedItems(MaxItems)}

\* --------------------------------------------------------------- initial db
\* services.id is a serial; unit prices are decimal strings.
ServiceId(c, s, a) == ((c - 1) * NumSpecialties + (s - 1)) * 2 + (IF a THEN 1 ELSE 2)

ServicePrice(s) == IF s % 2 = 1 THEN "120.00" ELSE "45.50"

ServiceRows ==
    {[id |-> ServiceId(c, s, a), companyId |-> c, specialtyId |-> s, active |-> a,
      unitPrice |-> ServicePrice(s)] :
        c \in Companies, s \in Specialties, a \in BOOLEAN}

\* Seeded memberships: user u belongs to company ((u-1) % NumCompanies) + 1.
SeedCompany(u) == ((u - 1) % NumCompanies) + 1

\* seedAccounts usernames
SeedName(u) == IF u = 1 THEN "mateus" ELSE IF u = 2 THEN "user"
               ELSE IF u = 3 THEN "admin" ELSE "brother"

\* bcrypt.hash(password, 10), the salt left out
Hash(password) == <<"bcrypt", password>>

SeedPassword(u) == IF u = 1 \/ u = 4 THEN "owner123" ELSE IF u = 2 THEN "user123"
                   ELSE "admin123"

SeedRole(u) == IF u = 1 THEN "OWNER" ELSE IF u = 2 THEN "USER"
               ELSE IF u = 3 THEN "ADMIN" ELSE "SUPPORT"

InitTables ==
    /\ userSpecialties = {}
    /\ jobs = [j \in JobIds |-> NoJob]
    /\ nextJobId = 1
    /\ jobAssignments = << >>
    /\ services = ServiceRows
    /\ session = [u \in Users |-> NoSession]
    /\ lastReq = NoReq
    /\ auditLog = << >>
    /\ nops = 0

InitMembers ==
    /\ users = [u \in Users |-> [username |-> SeedName(u),
                                  passwordHash |-> Hash(SeedPassword(u)),
                                  role |-> SeedRole(u), isSupportAdmin |-> (u = 1)]]
    /\ companyUsers =
           [k \in {<<SeedCompany(u), u>> : u \in Users} |->
               [role |-> SeedRole(k[2]), isActive |-> TRUE,
                permissions |-> NullPermissions]]

Init ==
    /\ InitTables
    /\ InitMembers
    /\ cap = NoCap
    /\ strip = NoStrip
    /\ RestIdle

\* ------------------------------------------------ the storage layer, driven
Step == nops < MaxOps /\ nops' = nops + 1

StorageSetUserSpecialties ==
    \E userId \in Users, companyId \in Companies, ids \in SUBSET Specialties :
        /\ Step
        /\ setUserSpecialties(userId, companyId, ids)
        /\ UNCHANGED <<users, companyUsers, jobs, nextJobId, jobAssignments,
                       services, session, lastReq, auditLog, aside>>

StorageUpdateCompanyUserPermissions ==
    \E companyId \in Companies, userId \in Users, p \in PermissionUpdates :
        /\ Step
        /\ updateCompanyUserPermissions(companyId, userId, p)
        /\ UNCHANGED <<users, userSpecialties, jobs, nextJobId, jobAssignments,
                       services, session, lastReq, auditLog, aside>>

StorageCreateJob ==
    \E companyId \in Companies, userId \in Users,
       specialtyId \in SpecialtyArgs, st \in NewJobStatuses, items \in NewJobItems :
        /\ Step
        /\ createJob(specialtyId, st, items, userId, companyId)
        /\ UNCHANGED <<users, companyUsers, userSpecialties, jobAssignments,
                       services, session, lastReq, aside>>

StorageAssignJobUser ==
    \E jobId \in JobIds, userId \in Users, p \in PermissionUpdates :
        /\ Step
        /\ jobs[jobId].exists
        /\ assignJobUser(jobId, userId, p)
        /\ UNCHANGED <<users, companyUsers, userSpecialties, jobs, nextJobId,
                       services, session, lastReq, auditLog, aside>>

StorageUpdateAssignmentPermissions ==
    \E jobId \in JobIds, userId \in Users, p \in PermissionUpdates :
        /\ Step
        /\ updateAssignmentPermissions(jobId, userId, p)
        /\ UNCHANGED <<users, companyUsers, userSpecialties, jobs, nextJobId,
                       services, session, lastReq, auditLog, aside>>

\* createJob with any status the insert schema lets through
StorageCreateJobInStatus ==
    \E companyId \in Companies, userId \in Users,
       specialtyId \in SpecialtyArgs, st \in PostedStatuses, items \in NewJobItems :
        /\ Step
        /\ createJob(specialtyId, st, items, userId, companyId)
        /\ UNCHANGED <<users, companyUsers, userSpecialties, jobAssignments,
                       services, session, lastReq, aside>>

Next ==
    \/ StorageSetUserSpecialties
    \/ StorageUpdateCompanyUserPermissions
    \/ StorageCreateJob
    \/ StorageAssignJobUser
    \/ StorageUpdateAssignmentPermissions

Spec == Init /\ [][Next]_vars

\* Jobs in every status, assigned and matched by specialty.
NextStats ==
    \/ StorageCreateJobInStatus
    \/ StorageAssignJobUser
    \/ StorageSetUserSpecialties

SpecStats == Init /\ [][NextStats]_vars

\* ------------------------------------------------------- the HTTP handlers
\* isSupportAdmin(username, globalRole): the users row says so.
isSupportAdmin(u) == users[u].isSupportAdmin

\* requireAuth: 401 without a session user, 403 when neither the session nor
\* an active membership gives a company, otherwise the request goes on.
requireAuth(u) ==
    IF session[u].userId = 0 THEN 401
    ELSE IF session[u].companyId = 0 /\ getUserCompanyIds(u) = {} THEN 403
    ELSE 200

\* The companyId requireAuth leaves in the session.
AuthCompanyIds(u) ==
    IF session[u].companyId # 0 THEN {session[u].companyId}
    ELSE getUserCompanyIds(u)

requireAdminOrOwner(u) ==
    IF session[u].userId = 0 THEN 401
    ELSE IF session[u].role # "ADMIN" /\ session[u].role # "OWNER" THEN 403
    ELSE 200

requireSupportAdmin(u) ==
    IF session[u].userId = 0 THEN 401
    ELSE IF ~isSupportAdmin(u) THEN 403
    ELSE 200

\* The first middleware that does not answer 200 decides.
First(a, b) == IF a # 200 THEN a ELSE b

Req(route, u, c, jobId, status, body) ==
    [route |-> route, caller |-> u, companyId |-> c, jobId |-> jobId,
     status |-> status, body |-> body]

Tables == <<users, companyUsers, userSpecialties, jobs, nextJobId,
            jobAssignments, services, auditLog>>

\* A request answered by a middleware: nothing but the response.
Refused(route, u, jobId, status) ==
    /\ Step
    /\ lastReq' = Req(route, u, session[u].companyId, jobId, status, {})
    /\ UNCHANGED <<Tables, session, aside>>

\* requireAuth passed with company c; the handler answers without writing.
Answered(route, u, c, jobId, status, body) ==
    /\ Step
    /\ lastReq' = Req(route, u, c, jobId, status, body)
    /\ session' = [session EXCEPT ![u].companyId = c]
    /\ UNCHANGED <<Tables, aside>>

\* requireAuth passed with company c; the handler writes and answers.
Served(route, u, c, jobId, status) ==
    /\ Step
    /\ lastReq' = Req(route, u, c, jobId, status, {})
    /\ session' = [session EXCEPT ![u].companyId = c]
    /\ UNCHANGED aside

\* The user a management request names (:userId or body.userId).
Target(userId) == {[target |-> userId]}

\* requireAuth passed with company c; the handler writes for the named user.
ServedFor(route, u, c, status, userId) ==
    /\ Step
    /\ lastReq' = Req(route, u, c, 0, status, Target(userId))
    /\ session' = [session EXCEPT ![u].companyId = c]
    /\ UNCHANGED aside

\* getUserCompanyId: one active membership of the user, 0 (undefined) if none
getUserCompanyId(u) == IF getUserCompanyIds(u) = {} THEN {0} ELSE getUserCompanyIds(u)

\* Mutant: the flag follows the number of user_specialties rows.
needsOnboarding_ByRowCount(u, companyId) ==
    IF companyId # 0 THEN UserSpecialtyRows(u, companyId) = {} ELSE TRUE

\* companyId ? (await getAllowedSpecialtyIds(user.id, companyId, user.role)).length === 0 : true
needsOnboarding(u, companyId) ==
    IF companyId # 0
    THEN getAllowedSpecialtyIds(u, companyId, users[u].role) = {}
    ELSE TRUE

\* POST /api/auth/login (the password check is left to bcrypt)
Login ==
    \E u \in Users :
        \E c \in getUserCompanyId(u) :
            /\ session' = [session EXCEPT
                              ![u] = [userId |-> u, role |-> users[u].role,
                                      companyId |-> c]]
            /\ lastReq' = Req("POST /api/auth/login", u, c, 0, 200,
                              {[needsOnboarding |-> needsOnboarding(u, c)]})
            /\ UNCHANGED <<Tables, aside, nops>>

\* GET /api/auth/me
Me ==
    \E u \in Users :
        LET route == "GET /api/auth/me"
        IN  IF session[u].userId = 0 THEN Refused(route, u, 0, 401)
            ELSE \E c \in getUserCompanyId(u) :
                    /\ Step
                    /\ lastReq' = Req(route, u, c, 0, 200,
                                      {[needsOnboarding |-> needsOnboarding(u, c)]})
                    /\ UNCHANGED <<Tables, session, aside>>

\* POST /api/onboarding/specialties
OnboardingSpecialties ==
    \E u \in Users, specialtyIds \in SpecialtySelections :
        LET route == "POST /api/onboarding/specialties"
        IN  IF requireAuth(u) # 200 THEN Refused(route, u, 0, requireAuth(u))
            ELSE \E c \in AuthCompanyIds(u) :
                    /\ Served(route, u, c, 0, 200)
                    /\ setUserSpecialties(u, c, specialtyIds)
                    /\ UNCHANGED <<users, companyUsers, jobs, nextJobId,
                                   jobAssignments, services, auditLog>>

\* PUT /api/admin/users/:userId/specialties
AdminPutUserSpecialties ==
    \E u \in Users, targetUserId \in Users, specialtyIds \in SpecialtySelections :
        LET route == "PUT /api/admin/users/:userId/specialties"
            gate == First(requireAuth(u), requireAdminOrOwner(u))
        IN  IF gate # 200 THEN Refused(route, u, 0, gate)
            ELSE \E c \in AuthCompanyIds(u) :
                    IF targetUserId \notin getCompanyUsers(c)
                    THEN Answered(route, u, c, 0, 404, Target(targetUserId))
                    ELSE IF specialtyIds # {}
                            /\ ~(specialtyIds \subseteq getSpecialties(getCompanyTradeId(c)))
                    THEN Answered(route, u, c, 0, 400, Target(targetUserId))
                    ELSE /\ ServedFor(route, u, c, 200, targetUserId)
                         /\ setUserSpecialties(targetUserId, c, specialtyIds)
                         /\ UNCHANGED <<users, companyUsers, jobs, nextJobId,
                                        jobAssignments, services, auditLog>>

\* PUT /api/support/users/:userId/specialties
SupportPutUserSpecialties ==
    \E u \in Users, userId \in Users, specialtyIds \in SpecialtySelections :
        LET route == "PUT /api/support/users/:userId/specialties"
            gate == First(requireAuth(u), requireSupportAdmin(u))
        IN  IF gate # 200 THEN Refused(route, u, 0, gate)
            ELSE \E c \in AuthCompanyIds(u) :
                    IF ~isUserInCompany(userId, c)
                    THEN Answered(route, u, c, 0, 403, Target(userId))
                    ELSE /\ ServedFor(route, u, c, 200, userId)
                         /\ setUserSpecialties(userId, c, specialtyIds)
                         /\ logAudit(c, u, "SPECIALTIES_UPDATED", 0)
                         /\ UNCHANGED <<users, companyUsers, jobs, nextJobId,
                                        jobAssignments, services>>

\* PATCH /api/admin/users/:userId/permissions
AdminPatchUserPermissions ==
    \E u \in Users, userId \in Users, permissions \in RoutePermissionUpdates :
        LET route == "PATCH /api/admin/users/:userId/permissions"
        IN  IF requireAuth(u) # 200 THEN Refused(route, u, 0, requireAuth(u))
            ELSE \E c \in AuthCompanyIds(u) :
                    IF ~getCompanyUserPermissions(c, u).canManageUsers
                    THEN Answered(route, u, c, 0, 403, {})
                    ELSE /\ Served(route, u, c, 0, 200)
                         /\ updateCompanyUserPermissions(c, userId, permissions)
                         /\ UNCHANGED <<users, userSpecialties, jobs, nextJobId,
                                        jobAssignments, services, auditLog>>

\* POST /api/jobs
PostJob ==
    \E u \in Users, specialtyId \in SpecialtyArgs, st \in NewJobStatuses,
       items \in NewJobItems :
        LET route == "POST /api/jobs"
        IN  IF requireAuth(u) # 200 THEN Refused(route, u, 0, requireAuth(u))
            ELSE \E c \in AuthCompanyIds(u) :
                    IF getCompanyTradeId(c) = 0
                    THEN Answered(route, u, c, 0, 400, {})
                    ELSE /\ Served(route, u, c, nextJobId, 201)
                         /\ createJob(specialtyId, st, items, u, c)
                         /\ UNCHANGED <<users, companyUsers, userSpecialties,
                                        jobAssignments, services>>

\* POST /api/jobs/:id/assignments
PostJobAssignment ==
    \E u \in Users, jobId \in JobIds, userId \in Users :
        LET route == "POST /api/jobs/:id/assignments"
        IN  IF requireAuth(u) # 200 THEN Refused(route, u, jobId, requireAuth(u))
            ELSE \E c \in AuthCompanyIds(u) :
                    IF ~getJob(jobId, u, session[u].role, c).found
                    THEN Answered(route, u, c, jobId, 404, {})
                    ELSE /\ Served(route, u, c, jobId, 201)
                         /\ assignJobUser(jobId, userId, NullPermissions)
                         /\ UNCHANGED <<users, companyUsers, userSpecialties, jobs,
                                        nextJobId, services, auditLog>>

\* GET /api/jobs/:id/assignments
GetJobAssignments ==
    \E u \in Users, jobId \in JobIds :
        LET route == "GET /api/jobs/:id/assignments"
        IN  IF requireAuth(u) # 200 THEN Refused(route, u, jobId, requireAuth(u))
            ELSE \E c \in AuthCompanyIds(u) :
                    Answered(route, u, c, jobId, 200, getJobAssignments(jobId, c))

\* PATCH /api/jobs/:id/assignments/:userId/permissions
PatchAssignmentPermissions ==
    \E u \in Users, jobId \in JobIds, userId \in Users,
       permissions \in RoutePermissionUpdates :
        LET route == "PATCH /api/jobs/:id/assignments/:userId/permissions"
        IN  IF requireAuth(u) # 200 THEN Refused(route, u, jobId, requireAuth(u))
            ELSE \E c \in AuthCompanyIds(u) :
                    /\ Served(route, u, c, jobId, 200)
                    /\ updateAssignmentPermissions(jobId, userId, permissions)
                    /\ UNCHANGED <<users, companyUsers, userSpecialties, jobs,
                                   nextJobId, services, auditLog>>

\* User 1 owns company 1, holds canManageUsers there and is the support
\* admin; every other user holds any role in any company, with the
\* permissions column still NULL.
ManagePermissions == [f \in {"canManageUsers"} |-> TRUE]

InitRoutes ==
    /\ InitTables
    /\ cap = NoCap
    /\ strip = NoStrip
    /\ RestIdle
    /\ \E role \in [Users \ {1} -> Roles], company \in [Users \ {1} -> Companies] :
           /\ users = [u \in Users |->
                          [username |-> SeedName(u),
                           passwordHash |-> Hash(SeedPassword(u)),
                           role |-> IF u = 1 THEN "OWNER" ELSE role[u],
                           isSupportAdmin |-> (u = 1)]]
           /\ companyUsers =
                  [k \in {<<IF u = 1 THEN 1 ELSE company[u], u>> : u \in Users} |->
                      [role |-> users[k[2]].role, isActive |-> TRUE,
                       permissions |-> IF k[2] = 1 THEN ManagePermissions
                                       ELSE NullPermissions]]

NextRoutes ==
    \/ Login
    \/ OnboardingSpecialties
    \/ AdminPutUserSpecialties
    \/ SupportPutUserSpecialties
    \/ AdminPatchUserPermissions
    \/ PostJob
    \/ PostJobAssignment
    \/ GetJobAssignments
    \/ PatchAssignmentPermissions

SpecRoutes == InitRoutes /\ [][NextRoutes]_vars

\* ------------------------------------------------------------- onboarding
\* User 1 owns company 1. Every other user holds any role and has no
\* membership, an inactive one in company 1, or an active one in some
\* company; the permissions column is NULL or grants canViewAllSpecialties.
ViewAllPermissions == [f \in {"canViewAllSpecialties"} |-> TRUE]

Memberships == {[companyId |-> 0, isActive |-> FALSE], [companyId |-> 1, isActive |-> FALSE]}
                   \cup {[companyId |-> c, isActive |-> TRUE] : c \in Companies}

InitOnboarding ==
    /\ InitTables
    /\ cap = NoCap
    /\ strip = NoStrip
    /\ RestIdle
    /\ \E role \in [Users \ {1} -> Roles], member \in [Users \ {1} -> Memberships],
          perms \in [Users \ {1} -> {NullPermissions, ViewAllPermissions}] :
           /\ users = [u \in Users |->
                          [username |-> SeedName(u),
                           passwordHash |-> Hash(SeedPassword(u)),
                           role |-> IF u = 1 THEN "OWNER" ELSE role[u],
                           isSupportAdmin |-> (u = 1)]]
           /\ companyUsers =
                  [k \in {<<1, 1>>} \cup {<<member[u].companyId, u>> :
                                            u \in {v \in Users \ {1} :
                                                      member[v].companyId # 0}} |->
                      IF k[2] = 1
                      THEN [role |-> "OWNER", isActive |-> TRUE,
                            permissions |-> NullPermissions]
                      ELSE [role |-> users[k[2]].role,
                            isActive |-> member[k[2]].isActive,
                            permissions |-> perms[k[2]]]]

NextOnboarding ==
    \/ Login
    \/ Me
    \/ OnboardingSpecialties
    \/ AdminPutUserSpecialties

SpecOnboarding == InitOnboarding /\ [][NextOnboarding]_vars

\* ------------------------------------------- the price-bearing GET routes
ServiceRoutes == {"GET api.services.list", "GET api.services.byTrade",
                  "GET /api/services/available"}

\* res.json(perms.canViewPrices ? servicesList : stripPrices(servicesList)):
\* the rows the query returned are fresh objects 1..n of the request's heap.
ServicesResponse(route, u, c, specialtyId) ==
    LET heap == ById(getServices(c, u, session[u].role, specialtyId))
        servicesList == [i \in DOMAIN heap |-> i]
        perms == getCompanyUserPermissions(c, u)
        stripped == stripPrices(heap, servicesList)
    IN  IF perms.canViewPrices
        THEN Answered(route, u, c, 0, 200, {[services |-> Deref(heap, servicesList)]})
        ELSE /\ Step
             /\ lastReq' = Req(route, u, c, 0, 200,
                               {[services |-> Deref(stripped.heap, stripped.result)]})
             /\ session' = [session EXCEPT ![u].companyId = c]
             /\ strip' = [heap |-> heap, input |-> servicesList,
                          after |-> stripped.heap, result |-> stripped.result,
                          done |-> TRUE]
             /\ UNCHANGED <<Tables, cap, rest>>

\* GET services list, GET services byTrade, GET /api/services/available
GetServices ==
    \E u \in Users, route \in ServiceRoutes :
        IF requireAuth(u) # 200 THEN Refused(route, u, 0, requireAuth(u))
        ELSE \E c \in AuthCompanyIds(u) : ServicesResponse(route, u, c, 0)

\* GET services bySpecialty
GetServicesBySpecialty ==
    \E u \in Users, specialtyId \in Specialties :
        LET route == "GET api.services.bySpecialty"
        IN  IF requireAuth(u) # 200 THEN Refused(route, u, 0, requireAuth(u))
            ELSE \E c \in AuthCompanyIds(u) :
                    ServicesResponse(route, u, c, specialtyId)

\* GET api.jobs.get
GetJob ==
    \E u \in Users, id \in JobIds :
        LET route == "GET api.jobs.get"
        IN  IF requireAuth(u) # 200 THEN Refused(route, u, id, requireAuth(u))
            ELSE \E c \in AuthCompanyIds(u) :
                    LET job == getJob(id, u, session[u].role, c)
                    IN  IF ~job.found THEN Answered(route, u, c, id, 404, {})
                        ELSE Answered(route, u, c, id, 200, {job})

\* GET api.pricingRules.list
GetPricingRules ==
    \E u \in Users, tradeId \in {0} \cup Trades :
        LET route == "GET api.pricingRules.list"
        IN  IF requireAuth(u) # 200 THEN Refused(route, u, 0, requireAuth(u))
            ELSE \E c \in AuthCompanyIds(u) :
                    Answered(route, u, c, 0, 200,
                             {[rules |-> getPricingRules(0, tradeId, 0, "")]})

\* A database the routes above have already worked on: every user is a
\* member of company 1, owned by user 1; each permissions column is NULL or
\* grants canViewPrices; every other user has one specialty and is assigned
\* to job 1, which user 1 posted with MaxItems line items.
ViewPermissions == [f \in {"canViewPrices"} |-> TRUE]

InitPrices ==
    /\ \E role \in [Users \ {1} -> Roles],
          perms \in [Users -> {NullPermissions, ViewPermissions}] :
           /\ users = [u \in Users |->
                          [username |-> SeedName(u),
                           passwordHash |-> Hash(SeedPassword(u)),
                           role |-> IF u = 1 THEN "OWNER" ELSE role[u],
                           isSupportAdmin |-> (u = 1)]]
           /\ companyUsers =
                  [k \in {<<1, u>> : u \in Users} |->
                      [role |-> users[k[2]].role, isActive |-> TRUE,
                       permissions |-> perms[k[2]]]]
    /\ userSpecialties = {<<1, u, 1>> : u \in Users \ {1}}
    /\ jobs = [j \in JobIds |->
                  IF j = 1
                  THEN [exists |-> TRUE, companyId |-> 1, specialtyId |-> 1,
                        status |-> "DRAFT",
                        items |-> [i \in 1..MaxItems |->
                                      Spread(PostedItems(MaxItems)[i], [id |-> i])]]
                  ELSE NoJob]
    /\ nextJobId = 2
    /\ jobAssignments = [a \in {<<1, u>> : u \in Users \ {1}} |->
                            DEFAULT_EMPLOYEE_PERMISSIONS]
    /\ auditLog = <<[companyId |-> 1, actorUserId |-> 1, action |-> "JOB_CREATED",
                     jobId |-> 1]>>
    /\ services = ServiceRows
    /\ session = [u \in Users |-> NoSession]
    /\ lastReq = NoReq
    /\ nops = 0
    /\ cap = NoCap
    /\ strip = NoStrip
    /\ RestIdle

NextPrices ==
    \/ Login
    \/ PatchAssignmentPermissions
    \/ GetServices
    \/ GetServicesBySpecialty
    \/ GetJob
    \/ GetPricingRules

SpecPrices == InitPrices /\ [][NextPrices]_vars

\* ------------------------------------------------- managing a company's users
\* Ids a management request names: the users and one id no user has.
TargetIds == Users \cup {NumUsers + 1}

NewPasswords == {"changed1"}

NewUsernames == {"ana", SeedName(2)}

\* db.select().from(users).where(eq(users.username, username)): some row or none
getUserByUsername(username) ==
    {u \in DOMAIN users : users[u].username = username}

\* db.select().from(users).where(eq(users.id, id)): a row or undefined
getUserById(id) == id \in DOMAIN users

\* update users set password_hash = hash where id = userId
resetUserPassword(userId, newPassword) ==
    users' = [u \in DOMAIN users |->
                 IF u = userId
                 THEN Spread(users[u], [passwordHash |-> Hash(newPassword)])
                 ELSE users[u]]

\* update users set username = newUsername where id = userId
renameUser(userId, newUsername) ==
    users' = [u \in DOMAIN users |->
                 IF u = userId
                 THEN Spread(users[u], [username |-> newUsername])
                 ELSE users[u]]

\* update company_users set is_active = isActive where company_id and user_id
setUserActive(companyId, userId, isActive) ==
    companyUsers' =
        [k \in DOMAIN companyUsers |->
            IF k = <<companyId, userId>>
            THEN Spread(companyUsers[k], [isActive |-> isActive])
            ELSE companyUsers[k]]

ManageUnchanged == <<userSpecialties, jobs, nextJobId, jobAssignments, services>>

\* POST /api/support/reset-password
SupportResetPassword ==
    \E u \in Users, userId \in TargetIds, newPassword \in NewPasswords :
        LET route == "POST /api/support/reset-password"
            gate == First(requireAuth(u), requireSupportAdmin(u))
        IN  IF gate # 200 THEN Refused(route, u, 0, gate)
            ELSE \E c \in AuthCompanyIds(u) :
                    IF ~getUserById(userId)
                    THEN Answered(route, u, c, 0, 404, Target(userId))
                    ELSE IF ~isUserInCompany(userId, c)
                    THEN Answered(route, u, c, 0, 403, Target(userId))
                    ELSE /\ ServedFor(route, u, c, 200, userId)
                         /\ resetUserPassword(userId, newPassword)
                         /\ logAudit(c, u, "PASSWORD_RESET", 0)
                         /\ UNCHANGED <<companyUsers, ManageUnchanged>>

\* PUT /api/support/users/:userId/rename
SupportRename ==
    \E u \in Users, userId \in TargetIds, newUsername \in NewUsernames :
        LET route == "PUT /api/support/users/:userId/rename"
            gate == First(requireAuth(u), requireSupportAdmin(u))
        IN  IF gate # 200 THEN Refused(route, u, 0, gate)
            ELSE \E c \in AuthCompanyIds(u) :
                    IF ~isUserInCompany(userId, c)
                    THEN Answered(route, u, c, 0, 403, Target(userId))
                    ELSE IF getUserByUsername(newUsername) \ {userId} # {}
                    THEN Answered(route, u, c, 0, 409, Target(userId))
                    ELSE /\ ServedFor(route, u, c, 200, userId)
                         /\ renameUser(userId, newUsername)
                         /\ logAudit(c, u, "USER_RENAME", 0)
                         /\ UNCHANGED <<companyUsers, ManageUnchanged>>

\* PUT /api/support/users/:userId/active
SupportActive ==
    \E u \in Users, userId \in TargetIds, isActive \in BOOLEAN :
        LET route == "PUT /api/support/users/:userId/active"
            gate == First(requireAuth(u), requireSupportAdmin(u))
        IN  IF gate # 200 THEN Refused(route, u, 0, gate)
            ELSE \E c \in AuthCompanyIds(u) :
                    IF ~isUserInCompany(userId, c)
                    THEN Answered(route, u, c, 0, 403, Target(userId))
                    ELSE IF userId = session[u].userId
                    THEN Answered(route, u, c, 0, 400, Target(userId))
                    ELSE /\ ServedFor(route, u, c, 200, userId)
                         /\ setUserActive(c, userId, isActive)
                         /\ logAudit(c, u, IF isActive THEN "USER_ACTIVATE"
                                           ELSE "USER_DEACTIVATE", 0)
                         /\ UNCHANGED <<users, ManageUnchanged>>

\* PATCH /api/admin/users/:userId/active
AdminPatchUserActive ==
    \E u \in Users, userId \in TargetIds, isActive \in BOOLEAN :
        LET route == "PATCH /api/admin/users/:userId/active"
            gate == requireAuth(u)
        IN  IF gate # 200 THEN Refused(route, u, 0, gate)
            ELSE \E c \in AuthCompanyIds(u) :
                    IF ~getCompanyUserPermissions(c, u).canManageUsers
                    THEN Answered(route, u, c, 0, 403, Target(userId))
                    ELSE IF userId = session[u].userId
                    THEN Answered(route, u, c, 0, 400, Target(userId))
                    ELSE /\ ServedFor(route, u, c, 200, userId)
                         /\ setUserActive(c, userId, isActive)
                         /\ UNCHANGED <<users, auditLog, ManageUnchanged>>

\* PATCH /api/admin/users/:userId/reset-password
AdminResetPassword ==
    \E u \in Users, userId \in TargetIds, newPassword \in NewPasswords :
        LET route == "PATCH /api/admin/users/:userId/reset-password"
            gate == requireAuth(u)
        IN  IF gate # 200 THEN Refused(route, u, 0, gate)
            ELSE \E c \in AuthCompanyIds(u) :
                    IF ~getCompanyUserPermissions(c, u).canManageUsers
                    THEN Answered(route, u, c, 0, 403, Target(userId))
                    ELSE IF userId \notin getCompanyUsers(c)
                    THEN Answered(route, u, c, 0, 404, Target(userId))
                    ELSE /\ ServedFor(route, u, c, 200, userId)
                         /\ resetUserPassword(userId, newPassword)
                         /\ UNCHANGED <<companyUsers, auditLog, ManageUnchanged>>

\* PUT /api/employees/:userId/active
EmployeesActive ==
    \E u \in Users, userId \in TargetIds, isActive \in BOOLEAN :
        LET route == "PUT /api/employees/:userId/active"
            gate == First(requireAuth(u), requireAdminOrOwner(u))
        IN  IF gate # 200 THEN Refused(route, u, 0, gate)
            ELSE \E c \in AuthCompanyIds(u) :
                    IF ~isUserInCompany(userId, c)
                    THEN Answered(route, u, c, 0, 403, Target(userId))
                    ELSE IF userId = session[u].userId
                    THEN Answered(route, u, c, 0, 400, Target(userId))
                    ELSE /\ ServedFor(route, u, c, 200, userId)
                         /\ setUserActive(c, userId, isActive)
                         /\ logAudit(c, u, IF isActive THEN "EMPLOYEE_ACTIVATE"
                                           ELSE "EMPLOYEE_DEACTIVATE", 0)
                         /\ UNCHANGED <<users, ManageUnchanged>>

\* User 1 owns company 1, is a support admin and may manage users; user 2 is
\* an ADMIN or a USER of either company.
InitManage ==
    /\ InitTables
    /\ cap = NoCap
    /\ strip = NoStrip
    /\ RestIdle
    /\ \E role \in {"ADMIN", "USER"}, company \in Companies :
           /\ users = [u \in Users |->
                          [username |-> SeedName(u),
                           passwordHash |-> Hash(SeedPassword(u)),
                           role |-> IF u = 1 THEN "OWNER" ELSE role,
                           isSupportAdmin |-> (u = 1)]]
           /\ companyUsers =
                  [k \in {<<IF u = 1 THEN 1 ELSE company, u>> : u \in Users} |->
                      [role |-> users[k[2]].role, isActive |-> TRUE,
                       permissions |-> IF k[2] = 1 THEN ManagePermissions
                                       ELSE NullPermissions]]

NextManage ==
    \/ Login
    \/ SupportResetPassword
    \/ SupportRename
    \/ SupportActive
    \/ SupportPutUserSpecialties
    \/ AdminPatchUserActive
    \/ AdminResetPassword
    \/ AdminPutUserSpecialties
    \/ EmployeesActive

SpecManage == InitManage /\ [][NextManage]_vars

\* ------------------------------------- updateCompanyUserPermissions, in steps
\* The method awaits a select and then an update; another call's statements
\* run between the two.
RaceTables == <<users, userSpecialties, jobs, nextJobId, jobAssignments, services,
                session, lastReq, auditLog, cap, strip, inviteTokens, signups,
                db, mig, client, estimatePhotos, nops>>

\* const [cu] = await db.select()...limit(1); if (!cu) return;
UpdateSelect ==
    \E p \in Updaters, companyId \in Companies, userId \in Users,
       permissions \in PermissionUpdates :
        /\ updaters[p].pc = "idle"
        /\ LET k == <<companyId, userId>>
               cu == IF k \in DOMAIN companyUsers
                     THEN [found |-> TRUE, id |-> k,
                           permissions |-> companyUsers[k].permissions]
                     ELSE Undefined
           IN  updaters' = [updaters EXCEPT
                               ![p] = [pc |-> IF cu.found THEN "selected" ELSE "resolved",
                                       companyId |-> companyId, userId |-> userId,
                                       permissions |-> permissions, cu |-> cu]]
        /\ UNCHANGED <<companyUsers, writeOrder, RaceTables>>

\* Mutant: the merge starts from the row as it is when the update runs.
UpdatedPermissions_Current(p) ==
    Spread(parsePermissions(companyUsers[updaters[p].cu.id].permissions),
           updaters[p].permissions)

\* const existing = parsePermissions(cu.permissions);
\* const updated = { ...existing, ...permissions };
UpdatedPermissions(p) ==
    Spread(parsePermissions(updaters[p].cu.permissions), updaters[p].permissions)

\* await db.update(companyUsers).set({ permissions }).where(eq(companyUsers.id, cu.id))
UpdateWrite ==
    \E p \in Updaters :
        /\ updaters[p].pc = "selected"
        /\ companyUsers' = [companyUsers EXCEPT
                               ![updaters[p].cu.id].permissions = UpdatedPermissions(p)]
        /\ updaters' = [updaters EXCEPT ![p].pc = "resolved"]
        /\ writeOrder' = Append(writeOrder, p)
        /\ UNCHANGED RaceTables

\* Stored permission columns the calls start from: NULL, one flag, all flags.
StoredPermissions ==
    {NullPermissions, ManagePermissions, [f \in Flags |-> TRUE]}

InitRace ==
    /\ InitTables
    /\ cap = NoCap
    /\ strip = NoStrip
    /\ InvitesIdle
    /\ UpdatersIdle
    /\ MigrationIdle
    /\ ClientIdle
    /\ PhotosIdle
    /\ users = [u \in Users |-> [username |-> SeedName(u),
                                  passwordHash |-> Hash(SeedPassword(u)),
                                  role |-> SeedRole(u), isSupportAdmin |-> (u = 1)]]
    /\ \E stored \in [Users -> StoredPermissions] :
           companyUsers =
               [k \in {<<SeedCompany(u), u>> : u \in Users} |->
                   [role |-> SeedRole(k[2]), isActive |-> TRUE,
                    permissions |-> stored[k[2]]]]

NextRace ==
    \/ UpdateSelect
    \/ UpdateWrite

SpecRace == InitRace /\ [][NextRace]_vars

\* ------------------------------------------------------------ runMigrations
\* The database is a record: the optional tables (tbls), the columns (cols),
\* indexes (idx), named constraints (cons) and NOT NULL columns (notnull) that
\* exist, and the rows of the tables the migration reads or writes.  A row is
\* a record over column names; the field of a column that does not exist
\* holds Absent, an SQL NULL is Null; in an integer column they are AbsentId
\* and NullId (serial ids start at 1).  Booleans are kept as "true", "false".
Absent == "<absent>"

AbsentId == -1

NullId == 0

\* String.prototype.toLowerCase on the slugs and usernames that occur
Lower(s) ==
    IF s = "FINISH" THEN "finish" ELSE IF s = "TILE" THEN "tile"
    ELSE IF s = "Admin" THEN "admin" ELSE s

LEGACY_TO_NEW_TRADE ==
    [s \in {"finish", "deck", "kitchen", "flooring", "extras", "paint", "clean", "tile"} |->
        IF s = "paint" THEN "painting" ELSE IF s = "clean" THEN "house_cleaning"
        ELSE IF s = "tile" THEN "tile" ELSE "carpentry"]

LEGACY_TRADE_TYPE_MAP ==
    [s \in {"finish_carpentry", "deck", "kitchen", "flooring", "extras", "painting",
            "cleaning", "tile"} |->
        IF s = "painting" THEN "painting" ELSE IF s = "cleaning" THEN "house_cleaning"
        ELSE IF s = "tile" THEN "tile" ELSE "carpentry"]

NEW_TRADES == <<"carpentry", "painting", "tile", "house_cleaning">>

NewTradeSlugs == {NEW_TRADES[i] : i \in DOMAIN NEW_TRADES}

NEW_SPECIALTIES ==
    <<[tradeSlug |-> "carpentry", slug |-> "finish"],
      [tradeSlug |-> "carpentry", slug |-> "deck"],
      [tradeSlug |-> "carpentry", slug |-> "stairs"],
      [tradeSlug |-> "carpentry", slug |-> "doors"],
      [tradeSlug |-> "carpentry", slug |-> "windows"],
      [tradeSlug |-> "carpentry", slug |-> "baseboard"],
      [tradeSlug |-> "painting", slug |-> "general"],
      [tradeSlug |-> "tile", slug |-> "general"],
      [tradeSlug |-> "house_cleaning", slug |-> "general"]>>

CATEGORY_TO_SPECIALTY ==
    [c \in {"Trim", "Trim Ext", "Doors", "Doors Ext", "Jamb", "Windows", "Stairs",
            "Shiplap", "Kitchen", "Flooring", "Extras", "Other", "Deck", "Railing",
            "Interior Paint", "Exterior Paint", "Prep", "Standard Clean", "Deep Clean",
            "Move-Out", "Floor Tile", "Wall Tile", "Grout & Prep"} |->
        IF c \in {"Trim", "Trim Ext"} THEN "baseboard"
        ELSE IF c \in {"Doors", "Doors Ext", "Jamb"} THEN "doors"
        ELSE IF c = "Windows" THEN "windows"
        ELSE IF c = "Stairs" THEN "stairs"
        ELSE IF c \in {"Shiplap", "Kitchen", "Flooring", "Extras", "Other"} THEN "finish"
        ELSE IF c \in {"Deck", "Railing"} THEN "deck"
        ELSE "general"]

colExists(d, table, column) == <<table, column>> \in d.cols

tblExists(d, table) == table \in d.tbls

conExists(d, name) == name \in d.cons

idxExists(d, name) == name \in d.idx

\* UPDATE ... SET col = v(row) WHERE p(row), on a set of rows
SetWhere(rows, p(_), col, v(_)) ==
    {IF p(r) THEN Spread(r, (col :> v(r))) ELSE r : r \in rows}

\* ALTER TABLE ... ADD COLUMN col [DEFAULT v]
AddColumn(d, table, col) == [d EXCEPT !.cols = @ \cup {<<table, col>>}]

\* ALTER TABLE ... DROP COLUMN col; a dropped column is no longer NOT NULL
DropColumn(d, table, col) ==
    [d EXCEPT !.cols = @ \ {<<table, col>>}, !.notnull = @ \ {<<table, col>>}]

\* What a block of statements leaves: the database, and whether one threw.
Done(d) == [db |-> d, ok |-> TRUE]

Thrown(d) == [db |-> d, ok |-> FALSE]

\* The orphan check: company_settings rows whose company has no row.
OrphanCheck(d) ==
    {r.company_id : r \in {x \in d.company_settings :
                              /\ x.company_id # NullId
                              /\ x.company_id \notin {c.id : c \in d.companies}}}

MigOrphans(d) == IF OrphanCheck(d) # {} THEN Thrown(d) ELSE Done(d)

HasDuplicates(rows, key(_)) ==
    \E r1, r2 \in rows : r1 # r2 /\ key(r1) = key(r2)

\* trades.code -> slug, trades_code_unique -> trades_slug_unique, drop
\* trades.description.  CREATE UNIQUE INDEX throws on duplicate slugs.
MigTradesColumns(d) ==
    LET hasSlug == colExists(d, "trades", "slug")
        hasCode == colExists(d, "trades", "code")
        d1 == IF hasCode /\ ~hasSlug
              THEN AddColumn(DropColumn(d, "trades", "code"), "trades", "slug")
              ELSE d
        d2 == IF idxExists(d1, "trades_code_unique")
              THEN [d1 EXCEPT !.idx = @ \ {"trades_code_unique"}]
              ELSE d1
    IN  IF ~idxExists(d2, "trades_slug_unique")
           /\ HasDuplicates(d2.trades, LAMBDA r : r.slug)
        THEN Thrown(d2)
        ELSE LET d3 == [d2 EXCEPT !.idx = @ \cup {"trades_slug_unique"}]
             IN  Done(IF colExists(d3, "trades", "description")
                      THEN DropColumn(d3, "trades", "description")
                      ELSE d3)

\* new Map(rows.map(r => [r.slug, r.id])): a later row replaces an earlier one
SlugMap(rows) ==
    [s \in {r.slug : r \in rows} |->
        CHOOSE i \in {r.id : r \in {x \in rows : x.slug = s}} :
            \A r \in {x \in rows : x.slug = s} : r.id <= i]

IsLegacyTrade(slug) ==
    Lower(slug) \in DOMAIN LEGACY_TO_NEW_TRADE /\ Lower(slug) \notin NewTradeSlugs

\* INSERT INTO trades for each of NEW_TRADES[i..] the database has no row of
RECURSIVE InsertTrades(_, _)
InsertTrades(d, i) ==
    IF i > Len(NEW_TRADES) THEN d
    ELSE IF NEW_TRADES[i] \in {r.slug : r \in d.trades} THEN InsertTrades(d, i + 1)
    ELSE InsertTrades([d EXCEPT !.trades = @ \cup {[id |-> d.tradeSeq, slug |-> NEW_TRADES[i]]},
                                !.tradeSeq = @ + 1], i + 1)

\* oldToNewTradeId: the existing trades a new trade takes over
OldToNewTradeId(existingTrades, tradesBySlug) ==
    [o \in {r.id : r \in {x \in existingTrades :
                             Lower(x.slug) \in DOMAIN LEGACY_TO_NEW_TRADE}} |->
        LET row == CHOOSE x \in existingTrades : x.id = o
        IN  tradesBySlug[LEGACY_TO_NEW_TRADE[Lower(row.slug)]]]

Remap(rows, m) ==
    SetWhere(rows, LAMBDA r : r.trade_id \in DOMAIN m, "trade_id",
             LAMBDA r : m[r.trade_id])

\* Rows with a foreign key on trades(id) that name the trade.
TradeReferenced(d, id) ==
    \/ \E s \in d.specialties : s.trade_id = id
    \/ conExists(d, "companies_trade_id_trades_id_fk")
       /\ \E c \in d.companies : c.trade_id = id

\* Legacy trades are folded into the four new ones and deleted once nothing
\* refers to them.  A DELETE that a foreign key forbids throws.
MigConsolidateTrades(d) ==
    LET existingTrades == d.trades
        hasLegacyTrades == \E r \in existingTrades : IsLegacyTrade(r.slug)
    IN  IF ~hasLegacyTrades THEN Done(d)
        ELSE LET d1 == InsertTrades(d, 1)
                 m == OldToNewTradeId(existingTrades, SlugMap(d1.trades))
                 d2 == [d1 EXCEPT
                           !.services = Remap(@, m),
                           !.jobs = Remap(@, m),
                           !.companies = IF colExists(d1, "companies", "trade_id")
                                         THEN Remap(@, m) ELSE @]
                 refs(id) == Cardinality({s \in d2.services : s.trade_id = id})
                             + Cardinality({j \in d2.jobs : j.trade_id = id})
                 hasCompanyRefs(id) ==
                     IF colExists(d2, "companies", "trade_id")
                     THEN Cardinality({c \in d2.companies : c.trade_id = id})
                     ELSE 0
                 deleted == {r \in existingTrades :
                                /\ IsLegacyTrade(r.slug)
                                /\ refs(r.id) = 0 /\ hasCompanyRefs(r.id) = 0}
             IN  IF \E r \in deleted : TradeReferenced(d2, r.id)
                 THEN Thrown(d2)
                 ELSE Done([d2 EXCEPT !.trades = @ \ deleted])

\* specMap keys are `${trade_id}:${slug}`
SpecKey(tradeId, slug) == <<tradeId, slug>>

SpecMap(rows) ==
    [k \in {SpecKey(r.trade_id, r.slug) : r \in rows} |->
        CHOOSE i \in {r.id : r \in {x \in rows : SpecKey(x.trade_id, x.slug) = k}} :
            \A r \in {x \in rows : SpecKey(x.trade_id, x.slug) = k} : r.id <= i]

\* Mutant: a specialty is inserted whether or not specMap has its key.
MissingSpecialty_Always(d, sp, tradeIdMap) ==
    sp.tradeSlug \in DOMAIN tradeIdMap

\* const tid = tradeIdMap.get(sp.tradeSlug); if (!tid) continue;
\* if (!specMap.has(key)) INSERT
MissingSpecialty(d, sp, tradeIdMap) ==
    /\ sp.tradeSlug \in DOMAIN tradeIdMap
    /\ SpecKey(tradeIdMap[sp.tradeSlug], sp.slug) \notin DOMAIN SpecMap(d.specialties)

RECURSIVE InsertSpecialties(_, _, _)
InsertSpecialties(d, i, tradeIdMap) ==
    IF i > Len(NEW_SPECIALTIES) THEN d
    ELSE IF ~MissingSpecialty(d, NEW_SPECIALTIES[i], tradeIdMap)
    THEN InsertSpecialties(d, i + 1, tradeIdMap)
    ELSE InsertSpecialties(
             [d EXCEPT !.specialties =
                           @ \cup {[id |-> d.specSeq,
                                    trade_id |-> tradeIdMap[NEW_SPECIALTIES[i].tradeSlug],
                                    slug |-> NEW_SPECIALTIES[i].slug]},
                       !.specSeq = @ + 1],
             i + 1, tradeIdMap)

\* CREATE TABLE regions, specialties, user_specialties where missing, and the
\* specialties of the trades that exist.
MigSpecialties(d) ==
    LET d1 == [d EXCEPT !.tbls = @ \cup {"regions", "specialties"}]
        d2 == InsertSpecialties(d1, 1, SlugMap(d1.trades))
    IN  Done([d2 EXCEPT !.tbls = @ \cup {"user_specialties"}])

supportAdminUsernames == {"mateus", "admin", "admin_test"}

\* users.is_global_admin, users.global_role, and the allowlisted users
MigUsers(d) ==
    LET d1 == IF ~colExists(d, "users", "is_global_admin")
              THEN [AddColumn(d, "users", "is_global_admin") EXCEPT
                       !.notnull = @ \cup {<<"users", "is_global_admin">>},
                       !.users = SetWhere(@, LAMBDA r : TRUE, "is_global_admin",
                                          LAMBDA r : "false")]
              ELSE d
        d2 == IF ~colExists(d1, "users", "global_role")
              THEN [AddColumn(d1, "users", "global_role") EXCEPT
                       !.notnull = @ \cup {<<"users", "global_role">>},
                       !.users = SetWhere(@, LAMBDA r : TRUE, "global_role",
                                          LAMBDA r : "user")]
              ELSE d1
    IN  Done([d2 EXCEPT
                 !.users = SetWhere(@, LAMBDA r : /\ Lower(r.username) \in supportAdminUsernames
                                                  /\ r.global_role = "user",
                                    "global_role", LAMBDA r : "support_admin")])

\* companies.trade_type -> trade_id
MigCompanies(d) ==
    IF ~(colExists(d, "companies", "trade_type") /\ ~colExists(d, "companies", "trade_id"))
    THEN Done(d)
    ELSE LET tradeIdMap == SlugMap(d.trades)
             d1 == [AddColumn(d, "companies", "trade_id") EXCEPT
                       !.companies = SetWhere(@, LAMBDA r : TRUE, "trade_id",
                                              LAMBDA r : NullId)]
             d2 == [d1 EXCEPT
                       !.companies =
                           SetWhere(@, LAMBDA r :
                                          /\ r.trade_type \in DOMAIN LEGACY_TRADE_TYPE_MAP
                                          /\ LEGACY_TRADE_TYPE_MAP[r.trade_type]
                                                 \in DOMAIN tradeIdMap,
                                    "trade_id",
                                    LAMBDA r : tradeIdMap[LEGACY_TRADE_TYPE_MAP[r.trade_type]])]
             d3 == IF "carpentry" \in DOMAIN tradeIdMap
                   THEN [d2 EXCEPT
                            !.companies = SetWhere(@, LAMBDA r : r.trade_id = NullId,
                                                   "trade_id",
                                                   LAMBDA r : tradeIdMap["carpentry"])]
                   ELSE d2
         IN  IF \E c \in d3.companies : c.trade_id = NullId
             THEN Thrown(d3)
             ELSE LET d4 == [d3 EXCEPT
                                !.notnull = @ \cup {<<"companies", "trade_id">>},
                                !.cons = @ \cup {"companies_trade_id_trades_id_fk"},
                                !.companies = SetWhere(@, LAMBDA r : TRUE, "trade_type",
                                                       LAMBDA r : Absent)]
                  IN  Done(DropColumn(d4, "companies", "trade_type"))

\* jobs.specialty_id, services.company_id, services.specialty_id.  The
\* foreign key on services.company_id throws when the default company has no row.
MigServiceKeys(d) ==
    LET d1 == IF ~colExists(d, "jobs", "specialty_id")
              THEN [AddColumn(d, "jobs", "specialty_id") EXCEPT
                       !.jobs = SetWhere(@, LAMBDA r : TRUE, "specialty_id",
                                         LAMBDA r : NullId)]
              ELSE d
        addSpecialty(x) ==
            IF ~colExists(x, "services", "specialty_id")
            THEN [AddColumn(x, "services", "specialty_id") EXCEPT
                     !.services = SetWhere(@, LAMBDA r : TRUE, "specialty_id",
                                           LAMBDA r : NullId)]
            ELSE x
    IN  IF colExists(d1, "services", "company_id") THEN Done(addSpecialty(d1))
        ELSE LET ids == {c.id : c \in d1.companies}
                 defaultCo == IF ids # {} THEN CHOOSE i \in ids : \A j \in ids : i <= j
                              ELSE 1
                 d2 == [AddColumn(d1, "services", "company_id") EXCEPT
                           !.services = SetWhere(@, LAMBDA r : TRUE, "company_id",
                                                 LAMBDA r : defaultCo),
                           !.notnull = @ \cup {<<"services", "company_id">>}]
             IN  IF ~conExists(d2, "services_company_id_companies_id_fk")
                 THEN IF \E s \in d2.services : s.company_id \notin ids
                      THEN Thrown(d2)
                      ELSE Done(addSpecialty(
                               [d2 EXCEPT !.cons =
                                   @ \cup {"services_company_id_companies_id_fk"}]))
                 ELSE Done(addSpecialty(d2))

\* services.specialty_id is filled from category, the rest falls to the
\* finish specialty of carpentry; a row left NULL aborts the run.
Backfill(d) ==
    LET specMap == SpecMap(d.specialties)
        tradeIdMap == SlugMap(d.trades)
        tradeSlug(r) == (CHOOSE t \in d.trades : t.id = r.trade_id).slug
        lookupSpecSlug(r) ==
            IF tradeSlug(r) # "carpentry" THEN "general"
            ELSE CATEGORY_TO_SPECIALTY[r.category]
        mapped(r) ==
            /\ r.specialty_id = NullId
            /\ r.category \in DOMAIN CATEGORY_TO_SPECIALTY
            /\ r.trade_id \in {t.id : t \in d.trades}
            /\ SpecKey(r.trade_id, lookupSpecSlug(r)) \in DOMAIN specMap
        d1 == [d EXCEPT
                  !.services = SetWhere(@, mapped, "specialty_id",
                                        LAMBDA r : specMap[SpecKey(r.trade_id,
                                                                   lookupSpecSlug(r))])]
        finishSpec ==
            IF "carpentry" \in DOMAIN tradeIdMap
               /\ SpecKey(tradeIdMap["carpentry"], "finish") \in DOMAIN specMap
            THEN specMap[SpecKey(tradeIdMap["carpentry"], "finish")]
            ELSE NullId
    IN  IF finishSpec # NullId
        THEN [d1 EXCEPT !.services = SetWhere(@, LAMBDA r : r.specialty_id = NullId,
                                              "specialty_id", LAMBDA r : finishSpec)]
        ELSE d1

MigBackfill(d) ==
    LET d1 == IF (\E s \in d.services : s.specialty_id = NullId)
                 /\ colExists(d, "services", "category")
              THEN Backfill(d) ELSE d
    IN  IF \E s \in d1.services : s.specialty_id = NullId THEN Thrown(d1)
        ELSE LET d2 == [d1 EXCEPT !.notnull = @ \cup {<<"services", "specialty_id">>}]
             IN  IF conExists(d2, "services_specialty_id_specialties_id_fk") THEN Done(d2)
                 ELSE IF \E s \in d2.services :
                            s.specialty_id \notin {x.id : x \in d2.specialties}
                 THEN Thrown(d2)
                 ELSE Done([d2 EXCEPT !.cons =
                               @ \cup {"services_specialty_id_specialties_id_fk"}])

\* ALTER TABLE services RENAME COLUMN from TO to
RenameServiceColumn(d, from, to) ==
    [AddColumn(DropColumn(d, "services", from), "services", to) EXCEPT
        !.services = {Spread(r, (to :> r[from]) @@ (from :> Absent)) : r \in @},
        !.notnull = (@ \ {<<"services", from>>})
                    \cup (IF <<"services", from>> \in d.notnull
                          THEN {<<"services", to>>} ELSE {})]

\* ALTER TABLE services ADD COLUMN col ..., every row getting v(row)
AddServiceColumn(d, col, v(_), notNull) ==
    [AddColumn(d, "services", col) EXCEPT
        !.services = SetWhere(@, LAMBDA r : TRUE, col, v),
        !.notnull = IF notNull THEN @ \cup {<<"services", col>>} ELSE @]

RECURSIVE DropServiceColumns(_, _)
DropServiceColumns(d, colsToDrop) ==
    IF colsToDrop = << >> THEN d
    ELSE LET col == Head(colsToDrop)
         IN  DropServiceColumns(
                 IF colExists(d, "services", col)
                 THEN [DropColumn(d, "services", col) EXCEPT
                          !.services = SetWhere(@, LAMBDA r : TRUE, col,
                                                LAMBDA r : Absent)]
                 ELSE d,
                 Tail(colsToDrop))

\* pricing_unit, unit_price, description, active, and the dropped columns
MigServiceColumns(d) ==
    LET d1 == IF colExists(d, "services", "unit") /\ ~colExists(d, "services", "pricing_unit")
              THEN RenameServiceColumn(d, "unit", "pricing_unit")
              ELSE IF ~colExists(d, "services", "pricing_unit")
              THEN AddServiceColumn(d, "pricing_unit", LAMBDA r : "EA", TRUE)
              ELSE d
        d2 == IF colExists(d1, "services", "price_default")
                 /\ ~colExists(d1, "services", "unit_price")
              THEN AddServiceColumn(d1, "unit_price",
                                    LAMBDA r : IF r.price_default = Null THEN "0.00"
                                               ELSE r.price_default, TRUE)
              ELSE IF ~colExists(d1, "services", "unit_price")
              THEN AddServiceColumn(d1, "unit_price", LAMBDA r : "0.00", TRUE)
              ELSE d1
        d3 == IF ~colExists(d2, "services", "description")
              THEN AddServiceColumn(d2, "description",
                                    LAMBDA r : IF colExists(d2, "services", "notes")
                                               THEN r.notes ELSE Null, FALSE)
              ELSE d2
        d4 == IF ~colExists(d3, "services", "active")
              THEN AddServiceColumn(d3, "active",
                                    LAMBDA r : IF colExists(d3, "services", "is_active")
                                                  /\ r.is_active # Null
                                               THEN r.is_active ELSE "true", TRUE)
              ELSE d3
    IN  Done(DropServiceColumns(d4, <<"price_min", "price_max", "price_default",
                                      "notes", "is_extra", "is_active">>))

\* job_items.pricing_unit, the company_settings keys, pricing_rules,
\* estimate_photos and the two unique indexes, which throw on duplicate rows.
MigRest(d) ==
    LET unitOf(ji) ==
            IF \E s \in d.services : s.id = ji.service_id
            THEN LET s == CHOOSE x \in d.services : x.id = ji.service_id
                 IN  IF s.pricing_unit = Null THEN "EA" ELSE s.pricing_unit
            ELSE "EA"
        d1 == IF ~colExists(d, "job_items", "pricing_unit")
              THEN [AddColumn(d, "job_items", "pricing_unit") EXCEPT
                       !.job_items = SetWhere(@, LAMBDA r : TRUE, "pricing_unit", unitOf),
                       !.notnull = @ \cup {<<"job_items", "pricing_unit">>}]
              ELSE d
        d2 == IF ~colExists(d1, "company_settings", "region_id")
              THEN [AddColumn(d1, "company_settings", "region_id") EXCEPT
                       !.company_settings = SetWhere(@, LAMBDA r : TRUE, "region_id",
                                                     LAMBDA r : NullId)]
              ELSE d1
        d3 == [d2 EXCEPT
                  !.cons = ((@ \cup {"company_settings_region_id_regions_id_fk"})
                            \ {"company_settings_company_id_fkey"})
                           \cup {"company_settings_company_id_companies_id_fk"},
                  !.tbls = @ \cup {"pricing_rules", "estimate_photos"},
                  !.idx = @ \cup (IF tblExists(d2, "pricing_rules") THEN {}
                                  ELSE {"pricing_rules_unique"})]
    IN  IF ~idxExists(d3, "company_users_unique")
           /\ HasDuplicates(d3.company_users, LAMBDA r : <<r.company_id, r.user_id>>)
        THEN Thrown(d3)
        ELSE LET d4 == [d3 EXCEPT !.idx = @ \cup {"company_users_unique"}]
             IN  IF ~idxExists(d4, "job_assignments_unique")
                    /\ HasDuplicates(d4.job_assignments, LAMBDA r : <<r.job_id, r.user_id>>)
                 THEN Thrown(d4)
                 ELSE Done([d4 EXCEPT !.idx = @ \cup {"job_assignments_unique"}])

\* ----------------------------------------- databases runMigrations starts on
\* "legacy" is the schema before any of the steps, "partial" has the trades,
\* users and new-table steps behind it, "current" is the schema the steps
\* lead to, with no services, companies or jobs yet.
Schemas == {"legacy", "partial", "current"}

SchemaCols(schema) ==
    IF schema = "legacy"
    THEN {<<"trades", "code">>, <<"trades", "description">>,
          <<"companies", "trade_type">>,
          <<"services", "category">>, <<"services", "unit">>,
          <<"services", "price_default">>, <<"services", "price_min">>,
          <<"services", "price_max">>, <<"services", "notes">>,
          <<"services", "is_extra">>, <<"services", "is_active">>}
    ELSE IF schema = "partial"
    THEN {<<"trades", "slug">>, <<"users", "is_global_admin">>,
          <<"users", "global_role">>, <<"companies", "trade_type">>,
          <<"services", "category">>, <<"services", "unit">>,
          <<"services", "price_default">>, <<"services", "notes">>,
          <<"services", "is_active">>}
    ELSE {<<"trades", "slug">>, <<"users", "is_global_admin">>,
          <<"users", "global_role">>, <<"companies", "trade_id">>,
          <<"jobs", "specialty_id">>, <<"services", "company_id">>,
          <<"services", "specialty_id">>, <<"services", "category">>,
          <<"services", "pricing_unit">>, <<"services", "unit_price">>,
          <<"services", "description">>, <<"services", "active">>,
          <<"job_items", "pricing_unit">>, <<"company_settings", "region_id">>}

SchemaTables(schema) ==
    IF schema = "legacy" THEN {}
    ELSE IF schema = "partial" THEN {"regions", "specialties", "user_specialties"}
    ELSE {"regions", "specialties", "user_specialties", "pricing_rules",
          "estimate_photos"}

SchemaIndexes(schema) ==
    IF schema = "legacy" THEN {"trades_code_unique"}
    ELSE IF schema = "partial" THEN {"trades_slug_unique"}
    ELSE {"trades_slug_unique", "pricing_rules_unique", "company_users_unique",
          "job_assignments_unique"}

SchemaConstraints(schema, orphan) ==
    IF schema = "current"
    THEN {"companies_trade_id_trades_id_fk", "services_company_id_companies_id_fk",
          "services_specialty_id_specialties_id_fk",
          "company_settings_region_id_regions_id_fk",
          "company_settings_company_id_companies_id_fk"}
    ELSE IF orphan THEN {} ELSE {"company_settings_company_id_fkey"}

SchemaNotNull(schema) ==
    IF schema = "legacy" THEN {}
    ELSE IF schema = "partial"
    THEN {<<"users", "is_global_admin">>, <<"users", "global_role">>}
    ELSE {<<"users", "is_global_admin">>, <<"users", "global_role">>,
          <<"companies", "trade_id">>, <<"services", "company_id">>,
          <<"services", "specialty_id">>, <<"services", "pricing_unit">>,
          <<"services", "unit_price">>, <<"services", "active">>,
          <<"job_items", "pricing_unit">>}

\* Slugs of the trades rows, in id order.
TradeVariants ==
    {<< >>, <<"finish", "paint">>, <<"FINISH", "tile">>, <<"deck", "TILE">>,
     <<"deck", "carpentry">>, <<"carpentry", "painting", "tile", "house_cleaning">>}

\* (trade_id, category) of the services rows, in id order; trade 9 has no row.
ServiceVariants ==
    {<< >>, <<<<1, "Trim">>, <<2, "Interior Paint">>>>, <<<<1, "Misc">>>>,
     <<<<9, "Doors">>>>}

\* trade_type of the one company, or no company.
CompanyVariants == {<< >>, <<"painting">>, <<"roofing">>}

UserVariants == {<<"mateus", "user">>, <<"Admin", "user">>}

\* The value of a column in a starting row: Absent unless the column exists.
Field(schema, table, col, value) ==
    IF <<table, col>> \in SchemaCols(schema) THEN value ELSE Absent

StartDb(schema, tradeSlugs, svc, co, names, orphan, dup) ==
    [tbls |-> SchemaTables(schema),
     cols |-> SchemaCols(schema),
     idx |-> SchemaIndexes(schema),
     cons |-> SchemaConstraints(schema, orphan),
     notnull |-> SchemaNotNull(schema),
     trades |-> {[id |-> i, slug |-> tradeSlugs[i]] : i \in DOMAIN tradeSlugs},
     tradeSeq |-> Len(tradeSlugs) + 1,
     specialties |-> IF schema = "partial" /\ tradeSlugs # << >>
                     THEN {[id |-> 1, trade_id |-> 1, slug |-> "finish"]} ELSE {},
     specSeq |-> IF schema = "partial" /\ tradeSlugs # << >> THEN 2 ELSE 1,
     users |-> {[id |-> i, username |-> names[i],
                 is_global_admin |-> Field(schema, "users", "is_global_admin", "false"),
                 global_role |-> Field(schema, "users", "global_role", "user")] :
                   i \in DOMAIN names},
     companies |-> {[id |-> i,
                     trade_type |-> Field(schema, "companies", "trade_type", co[i]),
                     trade_id |-> AbsentId] : i \in DOMAIN co},
     services |-> {[id |-> i, trade_id |-> svc[i][1],
                    company_id |-> AbsentId, specialty_id |-> AbsentId,
                    category |-> svc[i][2],
                    unit |-> "LF", pricing_unit |-> Absent,
                    price_default |-> IF i = 1 THEN "25.00" ELSE Null,
                    unit_price |-> Absent,
                    price_min |-> Field(schema, "services", "price_min", "20.00"),
                    price_max |-> Field(schema, "services", "price_max", "30.00"),
                    notes |-> IF i = 1 THEN "per foot" ELSE Null,
                    description |-> Absent,
                    is_extra |-> Field(schema, "services", "is_extra", "false"),
                    is_active |-> IF i = 1 THEN "false" ELSE Null,
                    active |-> Absent] : i \in DOMAIN svc},
     jobs |-> {[id |-> 1, trade_id |-> svc[i][1], specialty_id |-> AbsentId] :
                  i \in (DOMAIN svc) \cap {1}},
     job_items |-> {[id |-> i, service_id |-> i, pricing_unit |-> Absent] :
                       i \in (DOMAIN svc) \cup (IF svc = << >> THEN {} ELSE {7})},
     company_settings |->
         {[id |-> i, company_id |-> i,
           region_id |-> AbsentId] : i \in DOMAIN co}
         \cup (IF orphan
               THEN {[id |-> 5, company_id |-> 5, region_id |-> AbsentId]}
               ELSE {}),
     company_users |-> {[id |-> 1, company_id |-> 1, user_id |-> 1],
                        [id |-> 2, company_id |-> 1, user_id |-> 2]}
                       \cup (IF dup THEN {[id |-> 3, company_id |-> 1, user_id |-> 2]}
                             ELSE {}),
     job_assignments |-> {[id |-> 1, job_id |-> 1, user_id |-> 2]}]

\* The current schema has its keys and unique indexes in force: no services
\* or companies before their specialties and trades, no orphan, no duplicate.
StartDbs ==
    {StartDb(schema, tradeSlugs, svc, co, names, orphan, dup) :
        schema \in {"legacy", "partial"}, tradeSlugs \in TradeVariants,
        svc \in ServiceVariants, co \in CompanyVariants, names \in UserVariants,
        orphan \in BOOLEAN, dup \in BOOLEAN}
    \cup {StartDb("current", tradeSlugs, << >>, << >>, names, FALSE, FALSE) :
             tradeSlugs \in TradeVariants, names \in UserVariants}

\* ------------------------------------------------ runMigrations, block by block
MaxRuns == 2

MigTables == <<users, companyUsers, userSpecialties, jobs, nextJobId, jobAssignments,
               services, session, lastReq, auditLog, cap, strip, inviteTokens,
               signups, updaters, writeOrder, client, estimatePhotos, nops>>

\* A block has run: on to next, or to the catch when a statement threw.
MigStep(res, next) ==
    /\ db' = res.db
    /\ mig' = [mig EXCEPT !.pc = IF res.ok THEN next ELSE "catch"]
    /\ UNCHANGED MigTables

\* pool.connect(), BEGIN, the orphan check
MigBegin ==
    /\ mig.pc = "idle"
    /\ Len(mig.outcomes) < MaxRuns
    /\ db' = MigOrphans(db).db
    /\ mig' = [mig EXCEPT !.pc = IF MigOrphans(db).ok THEN "trades" ELSE "catch",
                          !.begin = db,
                          !.first = IF mig.outcomes = << >> THEN db ELSE @]
    /\ UNCHANGED MigTables

MigrateTradesColumns ==
    /\ mig.pc = "trades"
    /\ MigStep(MigTradesColumns(db), "consolidate")

MigrateConsolidateTrades ==
    /\ mig.pc = "consolidate"
    /\ MigStep(MigConsolidateTrades(db), "specialties")

MigrateSpecialties ==
    /\ mig.pc = "specialties"
    /\ MigStep(MigSpecialties(db), "users")

MigrateUsers ==
    /\ mig.pc = "users"
    /\ MigStep(MigUsers(db), "companies")

MigrateCompanies ==
    /\ mig.pc = "companies"
    /\ MigStep(MigCompanies(db), "serviceKeys")

MigrateServiceKeys ==
    /\ mig.pc = "serviceKeys"
    /\ MigStep(MigServiceKeys(db), "backfill")

MigrateBackfill ==
    /\ mig.pc = "backfill"
    /\ MigStep(MigBackfill(db), "serviceColumns")

MigrateServiceColumns ==
    /\ mig.pc = "serviceColumns"
    /\ MigStep(MigServiceColumns(db), "rest")

MigrateRest ==
    /\ mig.pc = "rest"
    /\ MigStep(MigRest(db), "commit")

\* COMMIT, client.release()
MigCommit ==
    /\ mig.pc = "commit"
    /\ mig' = [mig EXCEPT !.pc = "idle", !.outcomes = Append(@, "commit")]
    /\ UNCHANGED <<db, MigTables>>

\* catch: ROLLBACK puts back the database of BEGIN; the error is thrown on
MigRollback ==
    /\ mig.pc = "catch"
    /\ db' = mig.begin
    /\ mig' = [mig EXCEPT !.pc = "idle", !.outcomes = Append(@, "rollback")]
    /\ UNCHANGED MigTables

InitMigrate ==
    /\ InitTables
    /\ InitMembers
    /\ cap = NoCap
    /\ strip = NoStrip
    /\ InvitesIdle
    /\ UpdatersIdle
    /\ db \in StartDbs
    /\ mig = NoMigration
    /\ ClientIdle
    /\ PhotosIdle

NextMigrate ==
    \/ MigBegin
    \/ MigrateTradesColumns
    \/ MigrateConsolidateTrades
    \/ MigrateSpecialties
    \/ MigrateUsers
    \/ MigrateCompanies
    \/ MigrateServiceKeys
    \/ MigrateBackfill
    \/ MigrateServiceColumns
    \/ MigrateRest
    \/ MigCommit
    \/ MigRollback

SpecMigrate == InitMigrate /\ [][NextMigrate]_vars

\* ------------------------------------------------ jobs: update and delete
MaxPhotos == 2

\* body.status and body.items of a PUT: 0 stands for a body without the field
UpdateStatuses == {"", "SENT"}

UpdateItems == {0, 1}

\* tx.delete(jobItems).where(eq(jobItems.jobId, id)) and the insert after it
replaceJobItems(js, id, n) ==
    [js EXCEPT ![id].items = [i \in 1..n |-> Spread(PostedItems(n)[i], [id |-> i])]]

\* The audit rows updateJob writes, in order.
UpdateAudit(status, withItems, userId, companyId, id) ==
    (IF status # "" THEN <<[companyId |-> companyId, actorUserId |-> userId,
                            action |-> "STATUS_CHANGED:" \o status, jobId |-> id]>>
     ELSE << >>)
    \o (IF withItems THEN <<[companyId |-> companyId, actorUserId |-> userId,
                             action |-> "LINE_ITEMS_UPDATED", jobId |-> id]>>
        ELSE << >>)

\* storage.updateJob past its getJob check: one transaction.
updateJob(id, status, withItems, n, userId, companyId) ==
    /\ jobs' = LET set == IF status # "" THEN [jobs EXCEPT ![id].status = status]
                          ELSE jobs
               IN  IF withItems THEN replaceJobItems(set, id, n) ELSE set
    /\ auditLog' = auditLog \o UpdateAudit(status, withItems, userId, companyId, id)

\* estimate_photos.job_id REFERENCES jobs(id): the rows that hold a job in place
PhotosOf(id) == {p \in estimatePhotos : p.jobId = id}

\* the select deleteJob starts with
OwnJob(id, companyId) == id \in JobIds /\ jobs[id].exists /\ jobs[id].companyId = companyId

RemoveAssignments(id) ==
    [a \in {x \in DOMAIN jobAssignments : x[1] # id} |-> jobAssignments[a]]

\* Mutant: the transaction does not delete the job's assignments.
deleteJob_KeepAssignments(id) ==
    /\ jobs' = [jobs EXCEPT ![id] = NoJob]
    /\ jobAssignments' = jobAssignments

\* storage.deleteJob past its select: the three deletes of the transaction,
\* which the database commits when no estimate_photos row refers to the job.
deleteJob(id) ==
    /\ jobs' = [jobs EXCEPT ![id] = NoJob]
    /\ jobAssignments' = RemoveAssignments(id)

JobsUnchanged == <<users, companyUsers, userSpecialties, nextJobId, services>>

\* PUT api.jobs.update
PutJob ==
    \E u \in Users, id \in JobIds, status \in UpdateStatuses, n \in UpdateItems \cup {-1} :
        LET route == "PUT api.jobs.update"
            withItems == n # -1
        IN  IF requireAuth(u) # 200 THEN Refused(route, u, id, requireAuth(u))
            ELSE \E c \in AuthCompanyIds(u) :
                    IF getCompanyTradeId(c) = 0
                    THEN Answered(route, u, c, id, 400, {})
                    ELSE IF ~getJob(id, u, session[u].role, c).found
                    THEN Answered(route, u, c, id, 404, {})
                    ELSE /\ Served(route, u, c, id, 200)
                         /\ updateJob(id, status, withItems, IF withItems THEN n ELSE 0, u, c)
                         /\ UNCHANGED <<JobsUnchanged, jobAssignments>>

\* DELETE api.jobs.delete
DeleteJob ==
    \E u \in Users, id \in JobIds :
        LET route == "DELETE api.jobs.delete"
        IN  IF requireAuth(u) # 200 THEN Refused(route, u, id, requireAuth(u))
            ELSE \E c \in AuthCompanyIds(u) :
                    IF ~OwnJob(id, c) THEN Answered(route, u, c, id, 204, {})
                    ELSE IF PhotosOf(id) # {}
                    THEN Answered(route, u, c, id, 500, {})
                    ELSE /\ Step
                         /\ lastReq' = Req(route, u, c, id, 204, {})
                         /\ session' = [session EXCEPT ![u].companyId = c]
                         /\ deleteJob(id)
                         /\ UNCHANGED <<JobsUnchanged, auditLog, cap, strip, rest>>

\* POST api.estimatePhotos.create
PostEstimatePhoto ==
    \E u \in Users, jobId \in {0} \cup JobIds :
        LET route == "POST api.estimatePhotos.create"
        IN  IF requireAuth(u) # 200 THEN Refused(route, u, jobId, requireAuth(u))
            ELSE \E c \in AuthCompanyIds(u) :
                    IF jobId # 0 /\ ~jobs[jobId].exists
                    THEN Answered(route, u, c, jobId, 500, {})
                    ELSE /\ Cardinality(estimatePhotos) < MaxPhotos
                         /\ Step
                         /\ lastReq' = Req(route, u, c, jobId, 201, {})
                         /\ session' = [session EXCEPT ![u].companyId = c]
                         /\ estimatePhotos' = estimatePhotos \cup
                                {[id |-> Cardinality(estimatePhotos) + 1,
                                  jobId |-> jobId, companyId |-> c]}
                         /\ UNCHANGED <<Tables, cap, strip, inviteTokens, signups,
                                        updaters, writeOrder, db, mig, client>>

\* Two jobs, one per company, made by createJob; user 2 has any role but
\* OWNER, either company, and any of the assignments assignJobUser can give.
InitJobs ==
    /\ \E role \in Roles \ {"OWNER"}, company \in Companies :
           /\ users = [u \in Users |->
                          [username |-> SeedName(u),
                           passwordHash |-> Hash(SeedPassword(u)),
                           role |-> IF u = 1 THEN "OWNER" ELSE role,
                           isSupportAdmin |-> (u = 1)]]
           /\ companyUsers =
                  [k \in {<<IF u = 1 THEN 1 ELSE company, u>> : u \in Users} |->
                      [role |-> users[k[2]].role, isActive |-> TRUE,
                       permissions |-> NullPermissions]]
    /\ userSpecialties = {}
    /\ jobs = [j \in JobIds |->
                  [exists |-> TRUE, companyId |-> ((j - 1) % NumCompanies) + 1,
                   specialtyId |-> ((j - 1) % NumSpecialties) + 1,
                   status |-> "DRAFT",
                   items |-> [i \in 1..MaxItems |->
                                 Spread(PostedItems(MaxItems)[i], [id |-> i])]]]
    /\ nextJobId = MaxJobs + 1
    /\ \E assigned \in SUBSET {<<j, 2>> : j \in JobIds} :
           jobAssignments = [a \in assigned |-> DEFAULT_EMPLOYEE_PERMISSIONS]
    /\ auditLog = [j \in JobIds |-> [companyId |-> jobs[j].companyId, actorUserId |-> 1,
                                     action |-> "JOB_CREATED", jobId |-> j]]
    /\ services = ServiceRows
    /\ session = [u \in Users |-> NoSession]
    /\ lastReq = NoReq
    /\ nops = 0
    /\ cap = NoCap
    /\ strip = NoStrip
    /\ RestIdle

NextJobs ==
    \/ Login
    \/ PutJob
    \/ DeleteJob
    \/ PostEstimatePhoto

SpecJobs == InitJobs /\ [][NextJobs]_vars

\* ------------------------------------- requests of a deactivated employee
\* GET api.jobs.list
GetJobs ==
    \E u \in Users :
        LET route == "GET api.jobs.list"
        IN  IF requireAuth(u) # 200 THEN Refused(route, u, 0, requireAuth(u))
            ELSE \E c \in AuthCompanyIds(u) :
                    Answered(route, u, c, 0, 200, {getJobs(u, session[u].role, c)})

NextDeactivate ==
    \/ Login
    \/ EmployeesActive
    \/ GetJobs
    \/ GetJob
    \/ GetServices

SpecDeactivate == InitJobs /\ [][NextDeactivate]_vars

\* --------------------------------------------- the client's price calculators
\* Money and multipliers are exact fractions <<numerator, denominator>> in
\* lowest terms, money in cents.  The doubles of the client differ from them
\* by less than any cent boundary except at an exact half cent, where the
\* rounding of the double may fall either way.
RECURSIVE Gcd(_, _)
Gcd(a, b) == IF b = 0 THEN a ELSE Gcd(b, a % b)

Frac(n, d) == IF n = 0 THEN <<0, 1>> ELSE <<n \div Gcd(n, d), d \div Gcd(n, d)>>

Times(x, y) == Frac(x[1] * y[1], x[2] * y[2])

\* toFixed(2) and Math.round(x * 100) / 100: the cents a value may show as
Cents(x) ==
    LET q == x[1] \div x[2]
        r == x[1] % x[2]
    IN  IF 2 * r < x[2] THEN {q} ELSE IF 2 * r > x[2] THEN {q + 1} ELSE {q, q + 1}

\* pricing_rules.material_multiplier and complexity_multiplier, column defaults
MaterialMultiplier(tier) ==
    IF tier = "basic" THEN Frac(100, 100)
    ELSE IF tier = "standard" THEN Frac(115, 100) ELSE Frac(135, 100)

ComplexityMultiplier(level) ==
    IF level = "normal" THEN Frac(100, 100) ELSE Frac(120, 100)

MaterialTiers == {"basic", "standard", "premium"}

ComplexityLevels == {"normal", "hard"}

\* base_price in cents and anchor_multiplier in hundredths of the rules tried
RuleBaseCents == {10000, 6500, 1200}

RuleAnchors == {115, 100}

MaxQuantity == 3

\* PhotoEstimate.priceCalc
priceCalc(basePrice, anchor, materialTier, complexity, calculatedArea) ==
    LET anchorMult == Frac(anchor, 100)
        unitPrice == Times(Times(Times(Frac(basePrice, 1), anchorMult),
                                 MaterialMultiplier(materialTier)),
                           ComplexityMultiplier(complexity))
        lowMult == Times(MaterialMultiplier("basic"), ComplexityMultiplier("normal"))
        highMult == Times(MaterialMultiplier("premium"), ComplexityMultiplier("hard"))
    IN  [unitPrice |-> unitPrice,
         totalEstimate |-> Times(unitPrice, Frac(calculatedArea, 1)),
         lowPrice |-> Times(Times(Times(Frac(basePrice, 1), anchorMult), lowMult),
                            Frac(calculatedArea, 1)),
         highPrice |-> Times(Times(Times(Frac(basePrice, 1), anchorMult), highMult),
                             Frac(calculatedArea, 1))]

\* PhotoEstimateForm.computePrice, before the Math.round of each field
computePrice(basePrice, anchor, materialTier, complexity) ==
    LET suggested == Times(Times(Times(Frac(basePrice, 1), Frac(anchor, 100)),
                                 MaterialMultiplier(materialTier)),
                           ComplexityMultiplier(complexity))
    IN  [suggested |-> suggested,
         low |-> Times(suggested, Frac(90, 100)),
         high |-> Times(suggested, Frac(115, 100))]

CalcTables == <<users, companyUsers, userSpecialties, jobs, nextJobId, jobAssignments,
                services, session, lastReq, auditLog, cap, strip, inviteTokens,
                signups, updaters, writeOrder, db, mig, estimatePhotos, nops>>

\* The Photo Estimate page shows unit price, total and range with toFixed(2).
ShowPhotoEstimate ==
    /\ ~calc.done
    /\ calc.page = "PhotoEstimate"
    /\ LET c == priceCalc(calc.basePrice, calc.anchor, calc.materialTier,
                          calc.complexity, calc.quantity)
       IN  \E unitPrice \in Cents(c.unitPrice), total \in Cents(c.totalEstimate),
              low \in Cents(c.lowPrice), high \in Cents(c.highPrice) :
               calc' = Spread(calc, [done |-> TRUE, unitPrice |-> unitPrice,
                                     total |-> total, low |-> low, high |-> high])
    /\ UNCHANGED CalcTables

\* The job editor's form shows the rounded suggested price, the rounded range
\* and, as total, the suggested price times the quantity.
ShowPhotoEstimateForm ==
    /\ ~calc.done
    /\ calc.page = "PhotoEstimateForm"
    /\ LET c == computePrice(calc.basePrice, calc.anchor, calc.materialTier,
                             calc.complexity)
       IN  \E suggested \in Cents(c.suggested), low \in Cents(c.low),
              high \in Cents(c.high) :
               calc' = Spread(calc, [done |-> TRUE, unitPrice |-> suggested,
                                     total |-> suggested * calc.quantity,
                                     low |-> low, high |-> high])
    /\ UNCHANGED CalcTables

InitCalc ==
    /\ InitTables
    /\ InitMembers
    /\ cap = NoCap
    /\ strip = NoStrip
    /\ InvitesIdle
    /\ UpdatersIdle
    /\ MigrationIdle
    /\ PhotosIdle
    /\ calc \in [done : {FALSE}, page : {"PhotoEstimate", "PhotoEstimateForm"},
                 basePrice : RuleBaseCents, anchor : RuleAnchors,
                 materialTier : MaterialTiers, complexity : ComplexityLevels,
                 quantity : 1..MaxQuantity]

NextCalc ==
    \/ ShowPhotoEstimate
    \/ ShowPhotoEstimateForm

SpecCalc == InitCalc /\ [][NextCalc]_vars

\* ------------------------------------------------------- signup by invite
\* POST /api/invite/signup/:token.  The handler is a sequence of awaited
\* storage calls with no transaction around them; a request stands between
\* two of them while another request runs.
InviteNames == {"ana", "bob"}

SignupPassword == "pass1234"

SignupNames == InviteNames \cup {SeedName(2)}

\* Tokens a signup presents: one valid, one used, one expired, one unknown.
PresentedTokens == {"t-valid", "t-used", "t-expired", "t-none"}

InviteRows ==
    [t \in {"t-valid", "t-used", "t-expired"} |->
        [found |-> TRUE, token |-> t, companyId |-> 1, role |-> "USER",
         usedAt |-> (t = "t-used"), usedBy |-> IF t = "t-used" THEN 2 ELSE 0,
         expired |-> (t = "t-expired")]]

\* db.select().from(inviteTokens).where(eq(inviteTokens.token, token)).limit(1)
getInviteToken(token) ==
    IF token \in DOMAIN inviteTokens THEN inviteTokens[token] ELSE Undefined

\* users.id is a serial
NextUserId == Cardinality(DOMAIN users) + 1

\* db.insert(users).values({ username, passwordHash, role }).returning()
createUser(username, password, role) ==
    users' = [u \in (DOMAIN users) \cup {NextUserId} |->
                 IF u = NextUserId
                 THEN [username |-> username, passwordHash |-> Hash(password),
                       role |-> role, isSupportAdmin |-> FALSE]
                 ELSE users[u]]

\* insert into company_users unless the pair has a row
assignUserToCompany(userId, companyId, role) ==
    IF <<companyId, userId>> \in DOMAIN companyUsers
    THEN companyUsers' = companyUsers
    ELSE companyUsers' =
             [k \in (DOMAIN companyUsers) \cup {<<companyId, userId>>} |->
                 IF k = <<companyId, userId>>
                 THEN [role |-> role, isActive |-> TRUE, permissions |-> NullPermissions]
                 ELSE companyUsers[k]]

\* update invite_tokens set used_at = now, used_by = userId where token = token
markInviteTokenUsed(token, userId) ==
    inviteTokens' =
        [t \in DOMAIN inviteTokens |->
            IF t = token
            THEN Spread(inviteTokens[t], [usedAt |-> TRUE, usedBy |-> userId])
            ELSE inviteTokens[t]]

SignupAt(p, pc) == signups[p].pc = pc

SignupEnds(p, status) ==
    signups' = [signups EXCEPT ![p].pc = "done", ![p].status = status]

SignupTables == <<userSpecialties, jobs, nextJobId, jobAssignments, services,
                  session, lastReq, cap, strip, updaters, writeOrder, db, mig,
                  client, estimatePhotos, nops>>

\* getInviteToken, then 404 for no row, 410 for a used or an expired one
SignupGetInvite ==
    \E p \in Signups, token \in PresentedTokens, username \in SignupNames :
        /\ SignupAt(p, "idle")
        /\ LET invite == getInviteToken(token)
               status == IF ~invite.found THEN 404
                         ELSE IF invite.usedAt THEN 410
                         ELSE IF invite.expired THEN 410
                         ELSE 0
           IN  signups' = [signups EXCEPT
                              ![p] = [pc |-> IF status = 0 THEN "invited" ELSE "done",
                                      token |-> token, username |-> username,
                                      invite |-> invite, newUser |-> 0,
                                      status |-> status]]
        /\ UNCHANGED <<users, companyUsers, inviteTokens, auditLog, SignupTables>>

\* getUserByUsername, then 409 when there is a row
SignupGetUserByUsername ==
    \E p \in Signups :
        /\ SignupAt(p, "invited")
        /\ IF getUserByUsername(signups[p].username) # {}
           THEN SignupEnds(p, 409)
           ELSE signups' = [signups EXCEPT ![p].pc = "named"]
        /\ UNCHANGED <<users, companyUsers, inviteTokens, auditLog, SignupTables>>

\* createUser.  Whether users.username is unique is declared outside these
\* sources: where a row with the name has appeared since the check, the
\* insert either throws (the request ends in an error) or adds a second row.
SignupCreateUser ==
    \E p \in Signups :
        /\ SignupAt(p, "named")
        /\ \/ /\ createUser(signups[p].username, SignupPassword, signups[p].invite.role)
              /\ signups' = [signups EXCEPT ![p].pc = "created",
                                            ![p].newUser = NextUserId]
           \/ /\ getUserByUsername(signups[p].username) # {}
              /\ SignupEnds(p, 500)
              /\ UNCHANGED users
        /\ UNCHANGED <<companyUsers, inviteTokens, auditLog, SignupTables>>

SignupAssignUserToCompany ==
    \E p \in Signups :
        /\ SignupAt(p, "created")
        /\ assignUserToCompany(signups[p].newUser, signups[p].invite.companyId,
                               signups[p].invite.role)
        /\ signups' = [signups EXCEPT ![p].pc = "assigned"]
        /\ UNCHANGED <<users, inviteTokens, auditLog, SignupTables>>

SignupMarkInviteTokenUsed ==
    \E p \in Signups :
        /\ SignupAt(p, "assigned")
        /\ markInviteTokenUsed(signups[p].invite.token, signups[p].newUser)
        /\ signups' = [signups EXCEPT ![p].pc = "marked"]
        /\ UNCHANGED <<users, companyUsers, auditLog, SignupTables>>

\* logAudit, the session of the new user, 201
SignupRespond ==
    \E p \in Signups :
        /\ SignupAt(p, "marked")
        /\ logAudit(signups[p].invite.companyId, signups[p].newUser,
                    "SIGNUP_VIA_INVITE", 0)
        /\ SignupEnds(p, 201)
        /\ UNCHANGED <<users, companyUsers, inviteTokens, SignupTables>>

InitInvite ==
    /\ InitTables
    /\ InitMembers
    /\ cap = NoCap
    /\ strip = NoStrip
    /\ inviteTokens = InviteRows
    /\ signups = [p \in Signups |-> NoSignup]
    /\ UpdatersIdle
    /\ MigrationIdle
    /\ ClientIdle
    /\ PhotosIdle

NextInvite ==
    \/ SignupGetInvite
    \/ SignupGetUserByUsername
    \/ SignupCreateUser
    \/ SignupAssignUserToCompany
    \/ SignupMarkInviteTokenUsed
    \/ SignupRespond

SpecInvite == InitInvite /\ [][NextInvite]_vars

\* ------------------------------------------- capPermissions on any objects
InitCap ==
    /\ InitTables
    /\ InitMembers
    /\ cap \in [jobPermissions : PartialPermissions,
                companyPermissions : PartialPermissions,
                result : {NullPermissions}, done : {FALSE}]
    /\ strip = NoStrip
    /\ RestIdle

ApplyCap ==
    /\ ~cap.done
    /\ cap' = [cap EXCEPT
                  !.result = capPermissions(cap.jobPermissions, cap.companyPermissions),
                  !.done = TRUE]
    /\ UNCHANGED <<users, companyUsers, userSpecialties, jobs, nextJobId,
                   jobAssignments, services, session, lastReq, auditLog, nops,
                   strip, rest>>

SpecCap == InitCap /\ [][ApplyCap]_vars


\* ================================================================ properties
ItemSet(r) == {r.items[i] : i \in 1..Len(r.items)}

ExplicitFlag(companyId, userId, f) ==
    /\ <<companyId, userId>> \in DOMAIN companyUsers
    /\ f \in DOMAIN companyUsers[<<companyId, userId>>].permissions

\* C1: for a SUPPORT caller getAllowedSpecialtyIds is empty, getJobs has no
\* items and all-zero stats, getJob is undefined and getServices is empty,
\* whatever specialty rows, job assignments and permission flags are stored.
C1_SupportSeesNothing ==
    \A u \in Users, c \in CompanyArgs :
        /\ getAllowedSpecialtyIds(u, c, "SUPPORT") = {}
        /\ getJobs(u, "SUPPORT", c).items = << >>
        /\ \A k \in DOMAIN ZeroStats : getJobs(u, "SUPPORT", c).stats[k] = 0
        /\ \A j \in JobIds : getJob(j, u, "SUPPORT", c) = Undefined
        /\ \A sp \in SpecialtyArgs : getServices(c, u, "SUPPORT", sp) = {}

\* A user holds specialty rows and a job assignment that, read as USER, show
\* a job, the job detail and services.
C1_Witness ==
    \E u \in Users, c \in Companies :
        /\ UserSpecialtyRows(u, c) # {}
        /\ getJobs(u, "USER", c).items # << >>
        /\ \E j \in JobIds : getJob(j, u, "USER", c).found
        /\ getServices(c, u, "USER", 0) # {}

\* C2: the permission set getJob returns to a USER caller has a flag true
\* only if the caller's current company permission set has it true.
C2_CompanyIsCeiling ==
    \A j \in JobIds, u \in Users, c \in CompanyArgs, f \in Flags :
        LET r == getJob(j, u, "USER", c)
        IN  r.found =>
                /\ DOMAIN r.permissions = Flags
                /\ r.permissions[f] => getCompanyUserPermissions(c, u)[f]

\* The assignment grants a flag that the company set has explicitly set to
\* false, and getJob reports it false.
C2_Witness ==
    \E j \in JobIds, u \in Users, c \in Companies, f \in Flags :
        /\ getJob(j, u, "USER", c).found
        /\ FlagOf(jobAssignments[<<j, u>>], f)
        /\ ExplicitFlag(c, u, f)
        /\ ~companyUsers[<<c, u>>].permissions[f]
        /\ ~getJob(j, u, "USER", c).permissions[f]

\* C4: for a USER caller getJobs returns exactly the jobs of the company
\* that are assigned to the caller or whose specialty is one of the caller's
\* specialty rows; each such job once.
C4_UserJobVisibility ==
    \A u \in Users, c \in CompanyArgs :
        LET r == getJobs(u, "USER", c)
        IN  /\ ItemSet(r) =
                   {j \in JobIds :
                       /\ jobs[j].exists
                       /\ jobs[j].companyId = c
                       /\ \/ <<j, u>> \in DOMAIN jobAssignments
                          \/ /\ jobs[j].specialtyId # 0
                             /\ <<c, u, jobs[j].specialtyId>> \in userSpecialties}
            /\ Len(r.items) = Cardinality(ItemSet(r))

\* The caller sees a job through a specialty row while another job of the
\* same company stays hidden.
C4_Witness ==
    \E u \in Users, c \in Companies, j \in JobIds, h \in JobIds :
        /\ j \in ItemSet(getJobs(u, "USER", c))
        /\ <<j, u>> \notin DOMAIN jobAssignments
        /\ jobs[h].exists /\ jobs[h].companyId = c
        /\ h \notin ItemSet(getJobs(u, "USER", c))

\* C5: for an OWNER or ADMIN caller getJobs returns every job of the
\* caller's company and no job of another company.
C5_OwnerAdminSeeCompanyJobs ==
    \A u \in Users, c \in CompanyArgs, role \in {"OWNER", "ADMIN"} :
        ItemSet(getJobs(u, role, c)) =
            {j \in JobIds : jobs[j].exists /\ jobs[j].companyId = c}

\* Jobs exist in two companies and the caller's canViewAllSpecialties has
\* been stored as false.
C5_Witness ==
    \E u \in Users, c \in Companies, j \in JobIds, h \in JobIds :
        /\ jobs[j].exists /\ jobs[j].companyId = c
        /\ jobs[h].exists /\ jobs[h].companyId # c
        /\ ExplicitFlag(c, u, "canViewAllSpecialties")
        /\ ~companyUsers[<<c, u>>].permissions.canViewAllSpecialties
        /\ <<j, u>> \notin DOMAIN jobAssignments

TradeSpecialtySet(c) == {s \in Specialties : SpecialtyTrade(s) = CompanyTrade(c)}

\* C6: getAllowedSpecialtyIds is the full specialty set of the company's
\* trade for OWNER and for ADMIN with canViewAllSpecialties; for ADMIN
\* without the flag it is the explicit assignment set.
C6_OwnerAdminSpecialties ==
    \A u \in Users, c \in Companies :
        /\ getAllowedSpecialtyIds(u, c, "OWNER") = TradeSpecialtySet(c)
        /\ getAllowedSpecialtyIds(u, c, "ADMIN") =
               IF getCompanyUserPermissions(c, u).canViewAllSpecialties
               THEN TradeSpecialtySet(c)
               ELSE {s \in Specialties : <<c, u, s>> \in userSpecialties}

\* One member holds the flag with no specialty row, another member holds
\* rows that differ from the trade's set without the flag.
C6_Witness ==
    \E u \in Users, c \in Companies, v \in Users, d \in Companies :
        /\ ExplicitFlag(c, u, "canViewAllSpecialties")
        /\ companyUsers[<<c, u>>].permissions.canViewAllSpecialties
        /\ UserSpecialtyRows(u, c) = {}
        /\ getAllowedSpecialtyIds(u, c, "ADMIN") # {}
        /\ UserSpecialtyRows(v, d) # {}
        /\ UserSpecialtyRows(v, d) # TradeSpecialtySet(d)
        /\ ~getCompanyUserPermissions(d, v).canViewAllSpecialties

\* C7: for a USER caller getAllowedSpecialtyIds is exactly the specialty
\* rows stored for (userId, companyId).
C7_UserExplicitSpecialties ==
    \A u \in Users, c \in CompanyArgs :
        getAllowedSpecialtyIds(u, c, "USER") =
            {s \in Specialties : <<c, u, s>> \in userSpecialties}

\* The user holds canViewAllSpecialties = true, rows that are not the whole
\* trade, and different rows in another company.
C7_Witness ==
    \E u \in Users, c \in Companies, d \in Companies :
        /\ c # d
        /\ ExplicitFlag(c, u, "canViewAllSpecialties")
        /\ companyUsers[<<c, u>>].permissions.canViewAllSpecialties
        /\ UserSpecialtyRows(u, c) # {}
        /\ UserSpecialtyRows(u, c) # TradeSpecialtySet(c)
        /\ UserSpecialtyRows(u, d) # {}
        /\ UserSpecialtyRows(u, d) # UserSpecialtyRows(u, c)

\* C8: getServices returns only active services of the caller's company
\* whose specialty is allowed; an empty allowed set or a requested specialty
\* outside it yields nothing.
C8_ServiceVisibility ==
    \A u \in Users, c \in CompanyArgs, role \in RoleArgs, sp \in SpecialtyArgs :
        LET allowed == getAllowedSpecialtyIds(u, c, role)
            res == getServices(c, u, role, sp)
        IN  /\ \A s \in res : /\ s \in services
                              /\ s.companyId = c
                              /\ s.active
                              /\ s.specialtyId \in allowed
                              /\ sp # 0 => s.specialtyId = sp
            /\ allowed = {} => res = {}
            /\ (sp # 0 /\ sp \notin allowed) => res = {}

\* A user with some specialty rows gets services, and a stored active
\* service of a specialty outside the rows is withheld when requested.
C8_Witness ==
    \E u \in Users, c \in Companies, sp \in Specialties :
        /\ getServices(c, u, "USER", 0) # {}
        /\ sp \notin getAllowedSpecialtyIds(u, c, "USER")
        /\ \E s \in services : s.companyId = c /\ s.active /\ s.specialtyId = sp
        /\ getServices(c, u, "USER", sp) = {}

\* C3: capPermissions returns, for each of the five flags, the AND of the
\* job flag and the company flag; an absent flag counts as false and the
\* result always carries all five flags.
C3_CapIsAnd ==
    cap.done =>
        /\ DOMAIN cap.result = Flags
        /\ \A f \in Flags :
               cap.result[f] =
                   (/\ f \in DOMAIN cap.jobPermissions
                    /\ cap.jobPermissions[f]
                    /\ f \in DOMAIN cap.companyPermissions
                    /\ cap.companyPermissions[f])

\* capPermissions has run on objects where one flag is granted by both, one
\* only by the job, and one is absent from the company object.
C3_Witness ==
    /\ cap.done
    /\ \E f \in Flags, g \in Flags, h \in Flags :
           /\ cap.result[f]
           /\ FlagOf(cap.jobPermissions, g) /\ g \in DOMAIN cap.companyPermissions
           /\ ~cap.companyPermissions[g] /\ ~cap.result[g]
           /\ FlagOf(cap.jobPermissions, h) /\ h \notin DOMAIN cap.companyPermissions
           /\ ~cap.result[h]

\* ------------------------------------------------ who may change what (routes)
\* The authority the lifecycle rule names, in the state the request arrives in:
\* canManageUsers in company c, OWNER or ADMIN of c, or the support admin.
ManageAuthority(u, c) ==
    /\ u \in Users
    /\ \/ getCompanyUserPermissions(c, u).canManageUsers
       \/ /\ <<c, u>> \in DOMAIN companyUsers
          /\ companyUsers[<<c, u>>].isActive
          /\ companyUsers[<<c, u>>].role \in {"OWNER", "ADMIN"}
       \/ isSupportAdmin(u)

SpecialtyRowsChange(c, t) ==
    {r \in userSpecialties' : r[1] = c /\ r[2] = t}
        # {r \in userSpecialties : r[1] = c /\ r[2] = t}

CompanyPermissionsChange(c, t) ==
    /\ <<c, t>> \in DOMAIN companyUsers
    /\ <<c, t>> \in DOMAIN companyUsers'
    /\ parsePermissions(companyUsers'[<<c, t>>].permissions)
           # parsePermissions(companyUsers[<<c, t>>].permissions)

\* C9: a request changes a company permission set or a user's specialty
\* assignments in a company only if its caller holds canManageUsers there, is
\* that company's OWNER or ADMIN, or is the support admin; a plain USER
\* changes neither, their own specialty assignments included.
C9_OnlyManagersMutate ==
    [][\A c \in Companies, t \in Users :
          (SpecialtyRowsChange(c, t) \/ CompanyPermissionsChange(c, t))
              => ManageAuthority(lastReq'.caller, c)]_vars

AssignmentPermissionsChange(j) ==
    \E t \in Users :
        /\ <<j, t>> \in DOMAIN jobAssignments
        /\ <<j, t>> \in DOMAIN jobAssignments'
        /\ parsePermissions(jobAssignments'[<<j, t>>])
               # parsePermissions(jobAssignments[<<j, t>>])

AssignmentsListed(j) ==
    /\ lastReq' # lastReq
    /\ lastReq'.route = "GET /api/jobs/:id/assignments"
    /\ lastReq'.jobId = j
    /\ lastReq'.status = 200
    /\ lastReq'.body # {}

\* C10: the permission sets of a job's assignments are listed or changed only
\* by a request whose caller acts inside the company that owns the job and
\* holds manage-users authority there.
C10_AssignmentsGuarded ==
    [][\A j \in JobIds :
          (AssignmentPermissionsChange(j) \/ AssignmentsListed(j))
              => /\ jobs[j].exists
                 /\ lastReq'.companyId = jobs[j].companyId
                 /\ ManageAuthority(lastReq'.caller, jobs[j].companyId)]_vars

\* ------------------------------------------------------------- price redaction
AllServiceRoutes == ServiceRoutes \cup {"GET api.services.bySpecialty"}

\* A 200 answer of a service-listing route.
ServicesListed ==
    /\ lastReq.route \in AllServiceRoutes
    /\ lastReq.status = 200

ListedServices == (CHOOSE b \in lastReq.body : TRUE).services

\* Object o is stored service s with its price nulled.
NulledCopyOf(o, s) ==
    /\ DOMAIN o = DOMAIN s
    /\ o.unitPrice = Null
    /\ \A f \in DOMAIN s \ {"unitPrice"} : o[f] = s[f]

\* C11: a service-listing route answers a caller whose canViewPrices is false
\* with services whose unitPrice is null and whose other fields are the stored
\* ones, and a caller whose canViewPrices is true with the stored rows
\* themselves; stripPrices builds one new object per element and leaves the
\* input list and every input object as they were.
C11_StripPrices ==
    /\ ServicesListed =>
          LET canView == getCompanyUserPermissions(lastReq.companyId,
                                                   lastReq.caller).canViewPrices
              L == ListedServices
          IN  /\ Cardinality(lastReq.body) = 1
              /\ \A i \in DOMAIN L :
                    IF canView THEN L[i] \in services
                    ELSE \E sv \in services : NulledCopyOf(L[i], sv)
              /\ \A i, j \in DOMAIN L : i < j => L[i].id < L[j].id
    /\ strip.done =>
          /\ Len(strip.result) = Len(strip.input)
          /\ \A r \in DOMAIN strip.heap :
                r \in DOMAIN strip.after /\ strip.after[r] = strip.heap[r]
          /\ \A i \in DOMAIN strip.result :
                /\ strip.result[i] \notin DOMAIN strip.heap
                /\ strip.result[i] \in DOMAIN strip.after
                /\ NulledCopyOf(strip.after[strip.result[i]],
                                strip.heap[strip.input[i]])
          /\ \A i, j \in DOMAIN strip.result :
                i # j => strip.result[i] # strip.result[j]

\* A caller without canViewPrices was sent a non-empty list, all prices
\* nulled, while the stored rows carry prices.
C11_Witness ==
    /\ ServicesListed
    /\ ~getCompanyUserPermissions(lastReq.companyId, lastReq.caller).canViewPrices
    /\ Len(ListedServices) >= 2
    /\ strip.done
    /\ Deref(strip.after, strip.result) = ListedServices
    /\ \E i \in DOMAIN strip.input : strip.heap[strip.input[i]].unitPrice = "120.00"

\* The job detail a request was answered with.
JobAnswered(req) ==
    /\ req.route = "GET api.jobs.get"
    /\ req.status = 200

SentJob(req) == CHOOSE b \in req.body : TRUE

\* The job-assignment flag AND the company flag, read off the stored columns.
EffectiveCanViewPrices(jobId, u, c) ==
    /\ <<jobId, u>> \in DOMAIN jobAssignments
    /\ FlagOf(jobAssignments[<<jobId, u>>], "canViewPrices")
    /\ <<c, u>> \in DOMAIN companyUsers
    /\ FlagOf(companyUsers[<<c, u>>].permissions, "canViewPrices")

ZeroedCopyOf(o, item) ==
    /\ DOMAIN o = DOMAIN item
    /\ o.unitPrice = "0"
    /\ o.lineTotal = "0"
    /\ \A f \in DOMAIN item \ {"unitPrice", "lineTotal"} : o[f] = item[f]

\* C12: a USER holding an assignment on the job is sent every line item with
\* unitPrice and lineTotal "0" exactly when the job-assignment canViewPrices
\* AND the company canViewPrices is false, and the stored items otherwise; the
\* read leaves the stored jobs and their items as they were.
C12_JobItemRedaction ==
    [][lastReq'.route = "GET api.jobs.get" =>
          /\ jobs' = jobs
          /\ (/\ JobAnswered(lastReq')
              /\ session[lastReq'.caller].role = "USER"
              /\ <<lastReq'.jobId, lastReq'.caller>> \in DOMAIN jobAssignments) =>
                 LET stored == jobs[lastReq'.jobId].items
                     sent == SentJob(lastReq').items
                 IN  /\ DOMAIN sent = DOMAIN stored
                     /\ IF EffectiveCanViewPrices(lastReq'.jobId, lastReq'.caller,
                                                  lastReq'.companyId)
                        THEN sent = stored
                        ELSE \A i \in DOMAIN sent : ZeroedCopyOf(sent[i], stored[i])]_vars

\* A USER whose assignment grants canViewPrices while the company does not
\* was sent the job with its items zeroed; the stored items keep their prices.
C12_Witness ==
    /\ JobAnswered(lastReq)
    /\ session[lastReq.caller].role = "USER"
    /\ <<lastReq.jobId, lastReq.caller>> \in DOMAIN jobAssignments
    /\ jobAssignments[<<lastReq.jobId, lastReq.caller>>].canViewPrices
    /\ ~EffectiveCanViewPrices(lastReq.jobId, lastReq.caller, lastReq.companyId)
    /\ Len(SentJob(lastReq).items) >= 2
    /\ \A i \in DOMAIN SentJob(lastReq).items :
          /\ SentJob(lastReq).items[i].unitPrice = "0"
          /\ jobs[lastReq.jobId].items[i].unitPrice # "0"

\* The price values a 200 answer carries.
PricesSent(req) ==
    LET b == CHOOSE x \in req.body : TRUE
    IN  IF req.route \in AllServiceRoutes
        THEN {b.services[i].unitPrice : i \in DOMAIN b.services}
        ELSE IF req.route = "GET api.jobs.get"
        THEN {b.items[i].unitPrice : i \in DOMAIN b.items}
                 \cup {b.items[i].lineTotal : i \in DOMAIN b.items}
        ELSE IF req.route = "GET api.pricingRules.list"
        THEN {b.rules[i].basePrice : i \in DOMAIN b.rules}
        ELSE {}

PriceRoutes == AllServiceRoutes \cup {"GET api.jobs.get", "GET api.pricingRules.list"}

NeutralPrices == {Null, "0"}

\* The caller's canViewPrices in the company: the ceiling of any effective flag.
CompanyCanViewPrices(req) ==
    /\ <<req.companyId, req.caller>> \in DOMAIN companyUsers
    /\ FlagOf(companyUsers[<<req.companyId, req.caller>>].permissions, "canViewPrices")

\* C13: a caller whose effective canViewPrices is false is never sent a
\* non-neutral price, in a service listing, in the line items of a job detail
\* or in the pricing rules, whatever the caller's role.
C13_NoPriceLeak ==
    (/\ lastReq.route \in PriceRoutes
     /\ lastReq.status = 200
     /\ ~CompanyCanViewPrices(lastReq))
        => PricesSent(lastReq) \subseteq NeutralPrices

\* ------------------------------------------------------------------ fail closed
\* C14: for an unknown company, an unrecognised role string or a missing
\* membership row, getAllowedSpecialtyIds, getJobs and getServices answer with
\* the empty set or list, and for an unknown company or a missing membership
\* row getCompanyUserPermissions answers with all five flags false.
C14_FailClosed ==
    \A u \in Users, c \in CompanyArgs :
        /\ (c \notin Companies \/ <<c, u>> \notin DOMAIN companyUsers) =>
              getCompanyUserPermissions(c, u) = [f \in Flags |-> FALSE]
        /\ \A role \in RoleArgs :
              (\/ c \notin Companies
               \/ role \notin Roles
               \/ <<c, u>> \notin DOMAIN companyUsers) =>
                  /\ getAllowedSpecialtyIds(u, c, role) = {}
                  /\ getJobs(u, role, c).items = << >>
                  /\ \A sp \in SpecialtyArgs : getServices(c, u, role, sp) = {}

\* ------------------------------------------------------------------- job stats
NumberIn(items, st) == Cardinality({i \in DOMAIN items : jobs[items[i]].status = st})

\* C15: the stats of a getJobs result count exactly the returned items: total
\* is their number, and drafts, sent, approved, inProgress and done are the
\* numbers of returned items in status DRAFT, SENT, APPROVED, IN_PROGRESS and
\* DONE.
C15_StatsOverVisible ==
    \A u \in Users, role \in RoleArgs, c \in CompanyArgs :
        LET r == getJobs(u, role, c)
        IN  /\ r.stats.total = Len(r.items)
            /\ r.stats.drafts = NumberIn(r.items, "DRAFT")
            /\ r.stats.sent = NumberIn(r.items, "SENT")
            /\ r.stats.approved = NumberIn(r.items, "APPROVED")
            /\ r.stats.inProgress = NumberIn(r.items, "IN_PROGRESS")
            /\ r.stats.done = NumberIn(r.items, "DONE")

\* A USER sees one of the two jobs of the company: the visible one is DONE,
\* the hidden one is a DRAFT, and the stats count the DONE job only.
C15_Witness ==
    \E u \in Users, c \in Companies, j, h \in JobIds :
        LET r == getJobs(u, "USER", c)
        IN  /\ j # h
            /\ jobs[j].exists /\ jobs[j].companyId = c /\ jobs[j].status = "DONE"
            /\ jobs[h].exists /\ jobs[h].companyId = c /\ jobs[h].status = "DRAFT"
            /\ r.items = <<j>>
            /\ r.stats.total = 1 /\ r.stats.done = 1 /\ r.stats.drafts = 0

\* ------------------------------------------------------------ needsOnboarding
AuthAnswered ==
    /\ lastReq.route \in {"POST /api/auth/login", "GET /api/auth/me"}
    /\ lastReq.status = 200

SentNeedsOnboarding == (CHOOSE b \in lastReq.body : TRUE).needsOnboarding

CreatedWith(t) ==
    {signups[p].newUser : p \in {q \in Signups : signups[q].token = t}} \ {0}

\* Memberships the signups with token t have inserted.
JoinedWith(t) ==
    {k \in DOMAIN companyUsers : k[2] \in CreatedWith(t)}

\* C17: an invite token creates at most one user account.  A signup with an
\* unknown token ends in 404, one with a used or an expired token ends in 410,
\* both without a new user; and however the signups with one valid token
\* interleave, at most one of them inserts a user and a membership.
C17_OneAccountPerToken ==
    /\ \A p \in Signups :
           signups[p].pc # "idle" =>
               /\ signups[p].token \notin DOMAIN InviteRows =>
                      signups[p].status = 404 /\ signups[p].newUser = 0
               /\ (/\ signups[p].token \in DOMAIN InviteRows
                   /\ (InviteRows[signups[p].token].usedAt
                       \/ InviteRows[signups[p].token].expired)) =>
                      signups[p].status = 410 /\ signups[p].newUser = 0
    /\ \A t \in PresentedTokens :
           Cardinality(CreatedWith(t)) <= 1 /\ Cardinality(JoinedWith(t)) <= 1
ManageRoutes ==
    {"POST /api/support/reset-password",
     "PUT /api/support/users/:userId/rename",
     "PUT /api/support/users/:userId/active",
     "PUT /api/support/users/:userId/specialties",
     "PATCH /api/admin/users/:userId/active",
     "PATCH /api/admin/users/:userId/reset-password",
     "PUT /api/admin/users/:userId/specialties",
     "PUT /api/employees/:userId/active"}

\* A management request has been answered in this step.
Managed == nops' # nops /\ lastReq'.route \in ManageRoutes

\* The step changes the users row, a membership or the specialties of t.
UserChanges(t) ==
    \/ t \in DOMAIN users /\ users'[t] # users[t]
    \/ \E c \in Companies :
           /\ <<c, t>> \in DOMAIN companyUsers
           /\ companyUsers'[<<c, t>>] # companyUsers[<<c, t>>]
    \/ {r \in userSpecialties' : r[2] = t} # {r \in userSpecialties : r[2] = t}

\* A management request changes only members of the caller's session company.
ManagedWithinCompany ==
    Managed => \A t \in TargetIds :
                   UserChanges(t) => isUserInCompany(t, lastReq'.companyId)

\* A management request that passed the middlewares and names a user without
\* a membership in the caller's session company is answered 403 or 404.
OutsiderRejected ==
    (Managed /\ lastReq'.body # {}) =>
        LET t == (CHOOSE b \in lastReq'.body : TRUE).target
        IN  ~isUserInCompany(t, lastReq'.companyId) =>
                /\ lastReq'.status \in {403, 404}
                /\ UNCHANGED <<users, companyUsers, userSpecialties>>

\* C18: password reset, rename, activate/deactivate and specialty edits sent
\* through the support and admin routes change a user only if that user has a
\* membership in the caller's session company; for any other target the
\* request is answered 403 or 404 and no users, company_users or
\* user_specialties row changes.
C18_SameCompanyOnly == [][ManagedWithinCompany /\ OutsiderRejected]_vars

C18_RowsWithinCompany == [][ManagedWithinCompany]_vars
\* Two calls for the same (company, user) have both returned, both after
\* running their update statement.
BothWrote(p, q) ==
    /\ p # q
    /\ updaters[p].pc = "resolved" /\ updaters[q].pc = "resolved"
    /\ updaters[p].cu.found /\ updaters[q].cu.found
    /\ updaters[p].cu.id = updaters[q].cu.id

\* The call whose update statement on row id ran last.
LastWriter(id) ==
    LET on == SelectSeq(writeOrder, LAMBDA r : updaters[r].cu.id = id)
    IN  on[Len(on)]

\* C19: when two updateCompanyUserPermissions calls for the same (company,
\* user) interleave, the stored permission set after both have returned is
\* the complete five-flag record of the call that wrote last: each flag its
\* partial update names has the update's value, every other flag the value
\* that call read before writing; and a call never ends otherwise than resolved.
C19_LastWriteWins ==
    /\ \A p \in Updaters : updaters[p].pc \in {"idle", "selected", "resolved"}
    /\ \A p \in Updaters :
           (updaters[p].pc = "selected") =>
               updaters[p].cu.id \in DOMAIN companyUsers
    /\ \A p, q \in Updaters :
           BothWrote(p, q) =>
               LET w == updaters[LastWriter(updaters[p].cu.id)]
                   stored == companyUsers[w.cu.id].permissions
                   read == parsePermissions(w.cu.permissions)
               IN  /\ DOMAIN stored = Flags
                   /\ \A f \in Flags :
                          stored[f] = IF f \in DOMAIN w.permissions
                                      THEN w.permissions[f] ELSE read[f]

\* Two calls on the same row read before either wrote, and the first write is lost.
C19_Witness ==
    \E p, q \in Updaters :
        /\ BothWrote(p, q)
        /\ writeOrder = <<p, q>>
        /\ updaters[p].cu.permissions = updaters[q].cu.permissions
        /\ \E f \in DOMAIN updaters[p].permissions :
               /\ f \notin DOMAIN updaters[q].permissions
               /\ updaters[p].permissions[f] # parsePermissions(updaters[p].cu.permissions)[f]
               /\ companyUsers[updaters[q].cu.id].permissions[f] # updaters[p].permissions[f]
\* The run before this one committed.
MigratedBefore ==
    mig.outcomes # << >> /\ mig.outcomes[Len(mig.outcomes)] = "commit"

\* C20: runMigrations is idempotent.  On a database a previous run has
\* migrated and committed, no block of a further run changes a table, column,
\* index, constraint or row, and the run ends in COMMIT.
C20_Idempotent ==
    [][MigratedBefore =>
           /\ db' = db
           /\ mig'.outcomes # mig.outcomes =>
                  mig'.outcomes[Len(mig'.outcomes)] = "commit"]_vars

\* Two runs have committed; the first one folded legacy trades into the new
\* ones, filled services.specialty_id and changed the schema.
C20_Witness ==
    /\ mig.outcomes = <<"commit", "commit">>
    /\ \E t \in mig.first.trades : IsLegacyTrade(t.slug)
    /\ \E s \in mig.first.services : s.specialty_id = AbsentId
    /\ \A s \in db.services : s.specialty_id \in {x.id : x \in db.specialties}
    /\ mig.first.cols # db.cols
    /\ ~(\E t \in db.trades : IsLegacyTrade(t.slug))
\* C21: the price calculator shows unitPrice = basePrice x anchor x materialMult
\* x complexityMult and total = unitPrice x quantity, and a range whose low is
\* the basic x normal price and whose high is the premium x hard price, per
\* unit or for the quantity, to the cent; base price 100 with anchor 1.15 shows
\* 132.25 at standard/normal, 115.00 and 186.30 for one unit - on the Photo
\* Estimate page and in the job editor's form alike.
C21_PriceRange ==
    calc.done =>
        LET base == Times(Frac(calc.basePrice, 1), Frac(calc.anchor, 100))
            unit == Times(Times(base, MaterialMultiplier(calc.materialTier)),
                          ComplexityMultiplier(calc.complexity))
            lowUnit == base
            highUnit == Times(base, Frac(162, 100))
            qty == Frac(calc.quantity, 1)
        IN  /\ calc.unitPrice \in Cents(unit)
            /\ \/ calc.total \in Cents(Times(unit, qty))
               \/ calc.total = calc.unitPrice * calc.quantity
            /\ calc.low \in Cents(lowUnit) \cup Cents(Times(lowUnit, qty))
            /\ calc.high \in Cents(highUnit) \cup Cents(Times(highUnit, qty))
            /\ (calc.basePrice = 10000 /\ calc.anchor = 115 /\ calc.quantity = 1) =>
                   /\ calc.low = 11500 /\ calc.high = 18630
                   /\ (calc.materialTier = "standard" /\ calc.complexity = "normal") =>
                          calc.unitPrice = 13225

\* The same statement for the Photo Estimate page alone.
C21_PhotoEstimatePage == calc.page = "PhotoEstimate" => C21_PriceRange
\* C23: in every reachable state, every job getJobs returns to a caller
\* (userId, role, companyId) is found by getJob called with that job's id and
\* the same caller.
C23_ListedJobsOpen ==
    \A userId \in Users, role \in Roles, companyId \in Companies :
        LET items == getJobs(userId, role, companyId).items
        IN  \A i \in DOMAIN items : getJob(items[i], userId, role, companyId).found

\* The same statement for the jobs listed to an OWNER or ADMIN and the jobs
\* listed to a USER who holds an assignment on them.
C23_AssignedOrManagerOpen ==
    \A userId \in Users, role \in Roles, companyId \in Companies :
        LET items == getJobs(userId, role, companyId).items
        IN  \A i \in DOMAIN items :
                (role \in {"OWNER", "ADMIN"} \/ <<items[i], userId>> \in DOMAIN jobAssignments)
                    => getJob(items[i], userId, role, companyId).found
\* The caller of the request just served reaches its job through getJob.
CallerHasAccess ==
    getJob(lastReq'.jobId, lastReq'.caller, session[lastReq'.caller].role,
           lastReq'.companyId).found

JobRows == <<jobs, jobAssignments, auditLog>>

\* C22: a job is updated or deleted only by a caller to whom getJob gives the
\* job (OWNER or ADMIN of its company, or a USER assigned to it); the update or
\* delete request of any other caller leaves the jobs, their items, the
\* assignments and the audit log unchanged.
C22_WritesOnlyWithAccess ==
    [][lastReq'.route \in {"PUT api.jobs.update", "DELETE api.jobs.delete"}
           => (CallerHasAccess \/ UNCHANGED JobRows)]_vars

\* The same statement for the update route alone.
C22_UpdateOnlyWithAccess ==
    [][lastReq'.route = "PUT api.jobs.update"
           => (CallerHasAccess \/ UNCHANGED JobRows)]_vars

\* A delete changes jobs of the caller's session company only.
C22_DeleteWithinCompany ==
    [][lastReq'.route = "DELETE api.jobs.delete"
           => \A j \in JobIds :
                  jobs'[j] # jobs[j] => jobs[j].companyId = lastReq'.companyId]_vars
\* The rows that refer to job j: its items, its assignments, its photos.
Dependents(js, as, ps, j) ==
    <<js[j].items, {a \in DOMAIN as : a[1] = j}, {p \in ps : p.jobId = j}>>

\* C26: a deleteJob on a job of the caller's company that completes leaves no
\* job row, no job item, no assignment and no estimate photo with that job id
\* and changes no other job nor its dependent rows; one that cannot complete
\* leaves the job and all its dependent rows as they were.
C26_DeleteCascades ==
    [][(lastReq'.route = "DELETE api.jobs.delete"
        /\ OwnJob(lastReq'.jobId, lastReq'.companyId))
           => LET id == lastReq'.jobId
              IN  IF lastReq'.status = 204
                  THEN /\ ~jobs'[id].exists
                       /\ Dependents(jobs', jobAssignments', estimatePhotos', id)
                              = <<<< >>, {}, {}>>
                       /\ \A j \in JobIds \ {id} :
                              /\ jobs'[j] = jobs[j]
                              /\ Dependents(jobs', jobAssignments', estimatePhotos', j)
                                     = Dependents(jobs, jobAssignments, estimatePhotos, j)
                              /\ \A a \in DOMAIN jobAssignments :
                                     a[1] = j => jobAssignments'[a] = jobAssignments[a]
                  ELSE UNCHANGED <<jobs, jobAssignments, estimatePhotos>>]_vars

\* A job has been deleted while the other job keeps its assignment and a photo.
C26_Witness ==
    /\ lastReq.route = "DELETE api.jobs.delete"
    /\ lastReq.status = 204
    /\ ~jobs[lastReq.jobId].exists
    /\ \E j \in JobIds \ {lastReq.jobId} :
           /\ jobs[j].exists
           /\ \E a \in DOMAIN jobAssignments : a[1] = j
           /\ \E ph \in estimatePhotos : ph.jobId = j

\* A delete has been refused by the database because a photo refers to the job.
C26_Held ==
    /\ lastReq.route = "DELETE api.jobs.delete"
    /\ lastReq.status = 500
    /\ jobs[lastReq.jobId].exists
\* company_users has an active row of the user in the company.
ActiveMember(userId, companyId) ==
    /\ <<companyId, userId>> \in DOMAIN companyUsers
    /\ companyUsers[<<companyId, userId>>].isActive

DataRoutes == {"GET api.jobs.list", "GET api.jobs.get"} \cup ServiceRoutes

\* C24: while a user's membership of a company is deactivated, no request of
\* that user is served data of that company (jobs, services), whether the user
\* has logged in again or goes on with a session from before the deactivation.
C24_NoDataWhileDeactivated ==
    [][(lastReq'.route \in DataRoutes /\ lastReq'.status = 200)
           => ActiveMember(lastReq'.caller, lastReq'.companyId)]_vars

\* A login puts into the session a company of an active membership or none.
C24_LoginActiveOnly ==
    [][lastReq'.route = "POST /api/auth/login"
           => (lastReq'.companyId = 0
               \/ ActiveMember(lastReq'.caller, lastReq'.companyId))]_vars
TradeSpecialties(companyId) == getSpecialties(getCompanyTradeId(companyId))

\* C25: in every reachable state, for every user, every company the user
\* belongs to and every role, getAllowedSpecialtyIds returns only specialties
\* of the trade of that company.
C25_AllowedWithinTrade ==
    \A userId \in Users, companyId \in Companies, role \in Roles :
        isUserInCompany(userId, companyId)
            => getAllowedSpecialtyIds(userId, companyId, role)
                   \subseteq TradeSpecialties(companyId)

\* The same statement for the assignments the admin route writes.
C25_AdminRouteWithinTrade ==
    [][(lastReq'.route = "PUT /api/admin/users/:userId/specialties"
        /\ lastReq'.status = 200)
           => \A t \in lastReq'.body :
                  {r[3] : r \in {x \in userSpecialties' :
                                     /\ x[1] = lastReq'.companyId
                                     /\ x[2] = t.target}}
                      \subseteq TradeSpecialties(lastReq'.companyId)]_vars
\* The request just answered is /api/auth/me of the user whose request before
\* it was a successful onboarding submission that stored at least one row.
MeAfterOnboarding ==
    /\ lastReq.route = "POST /api/onboarding/specialties"
    /\ lastReq.status = 200
    /\ UserSpecialtyRows(lastReq.caller, lastReq.companyId) # {}
    /\ lastReq'.route = "GET /api/auth/me"
    /\ lastReq'.status = 200
    /\ lastReq'.caller = lastReq.caller

\* C27: the /api/auth/me answer that follows a user's successful non-empty
\* onboarding submission reports needsOnboarding = false, the value the client
\* has written into its cached user, whatever the role of the user.
C27_OnboardedAfterSubmit ==
    [][MeAfterOnboarding => \A b \in lastReq'.body : ~b.needsOnboarding]_vars

\* The same statement for the users whose role is not SUPPORT.
C27_OnboardedUnlessSupport ==
    [][(MeAfterOnboarding /\ users[lastReq.caller].role # "SUPPORT")
           => \A b \in lastReq'.body : ~b.needsOnboarding]_vars
====
